---- MODULE Spec2Model ----
(***************************************************************************)
(* Verification model of the Medibudy harvesting pipeline: the scrapers'   *)
(* persistence (upsert / insert), the import scripts, the bounded worker   *)
(* pool of the async scraper, the fuzzy hospital matcher, the detail-page  *)
(* URL validators, URL discovery and the retrying fetch layer.             *)
(*                                                                         *)
(* Text is modelled as a sequence of atoms.  An atom is a short piece of   *)
(* text (one character or one lexical token) chosen so that every literal  *)
(* of the regular expressions in the source is a sequence of whole atoms.  *)
(***************************************************************************)
EXTENDS Integers, Sequences, FiniteSets, TLC

VARIABLES
    \* ---- persistence ----
    db,             \* the MongoDB database: [hospitals, doctors] collections
    scraper,        \* which program owns the current run
    scraped_data,   \* self.scraped_data / self.hospitals, self.doctors
    written,        \* history: natural key -> data of the latest applied write
    \* ---- worker pool of run_comprehensive_scrape ----
    pool,
    \* ---- find_matching_hospital ----
    match,
    \* ---- URL validators and discovery ----
    disc,
    \* ---- safe_get / safe_request ----
    fetch

vars == <<db, scraper, scraped_data, written, pool, match, disc, fetch>>

storeVars == <<db, scraper, scraped_data, written>>

None == "None"

\* Idle values of the components a specification does not exercise.
PoolIdle  == [pc |-> "idle"]
MatchIdle == [pc |-> "idle"]
DiscIdle  == [pc |-> "idle"]
FetchIdle == [pc |-> "idle"]

(***************************************************************************)
(* Generic sequence helpers                                                *)
(***************************************************************************)
Range(s) == {s[i] : i \in 1..Len(s)}

SeqsUpTo(S, n) == UNION {[1..k -> S] : k \in 0..n}

(***************************************************************************)
(* Persistence: documents, collections, update_one / insert                *)
(***************************************************************************)
MaxStaged == 2      \* records staged in memory between two saves
MaxStore  == 4      \* documents in the store explored by the scraper saves
MaxDocs   == 2      \* documents in the store explored by the other writers
MaxRows   == 2      \* rows of an imported sheet

Urls          == {"u1", "u2"}
Payloads      == {"p1", "p2"}
DoctorNames   == {"d1", "d2"}
HospitalNames == {"h1", "h2"}
City          == "c1"

\* The hospital a detail page describes: the page at u1 is hospital h1.
NameOfUrl(u) == IF u = "u1" THEN "h1" ELSE "h2"

\* Dicts built by scrape_hospital_details* / asdict(Hospital).
ScrapedHospitals ==
    {[url |-> u, name |-> NameOfUrl(u), city |-> City, data |-> p] :
        u \in Urls, p \in Payloads}

\* Dicts built by extract_single_doctor_info* / asdict(Doctor).
ScrapedDoctors ==
    {[name |-> n, hospital_name |-> "h1", data |-> p] :
        n \in DoctorNames, p \in Payloads}

\* asdict(Hospital) of the async scraper: the page URL is the field link.
AsyncHospitals ==
    {[link |-> u, name |-> NameOfUrl(u), city |-> City, data |-> p] :
        u \in Urls, p \in Payloads}

\* asdict(Doctor) of the async scraper: the hospital name is the field hospital.
AsyncDoctors ==
    {[name |-> n, hospital |-> "h1", data |-> p] :
        n \in DoctorNames, p \in Payloads}

\* Documents built by transform_hospital_data; location_city is the nested
\* field location.city.
SheetHospitals ==
    {[name |-> n, location_city |-> City, data |-> p] :
        n \in HospitalNames, p \in Payloads}

\* Documents built by transform_doctor_data; hospital_name_nested is the
\* nested field hospital.name.
SheetDoctors ==
    {[name |-> n, hospital_name_nested |-> "h1", data |-> p] :
        n \in DoctorNames, p \in Payloads}

Scrapers == {"fast", "lightning", "india"}

\* A document matches a query when it carries every queried field value.
Matches(doc, query) ==
    \A f \in DOMAIN query : f \in DOMAIN doc /\ doc[f] = query[f]

\* {'$set': rec}: the fields of rec overwrite, the others are kept.
SetFields(doc, rec) ==
    [f \in (DOMAIN doc) \cup (DOMAIN rec) |->
        IF f \in DOMAIN rec THEN rec[f] ELSE doc[f]]

FirstMatch(coll, query) ==
    IF \E i \in 1..Len(coll) : Matches(coll[i], query)
    THEN CHOOSE i \in 1..Len(coll) :
            /\ Matches(coll[i], query)
            /\ \A j \in 1..(i - 1) : ~Matches(coll[j], query)
    ELSE 0

\* collection.update_one(query, {'$set': rec}, upsert=True), written as a
\* bug would write it: always insert.
UpdateOneAlwaysInsert(coll, query, rec) == Append(coll, SetFields(query, rec))

\* collection.update_one(query, {'$set': rec}, upsert=True)
UpdateOneUpsert(coll, query, rec) ==
    LET i == FirstMatch(coll, query) IN
    IF i = 0
    THEN Append(coll, SetFields(query, rec))
    ELSE [coll EXCEPT ![i] = SetFields(coll[i], rec)]

HospitalQuery(h) == [url |-> h.url]

DoctorQuery(d) == [name |-> d.name, hospital_name |-> d.hospital_name]

\* The loop / bulk_write over the staged hospitals: ops 1..n are applied in
\* list order (bulk_write is ordered and stops at the first error).
RECURSIVE UpsertHospitals(_, _, _)
UpsertHospitals(coll, recs, n) ==
    IF n = 0 THEN coll
    ELSE UpdateOneUpsert(UpsertHospitals(coll, recs, n - 1),
                         HospitalQuery(recs[n]), recs[n])

RECURSIVE UpsertDoctors(_, _, _)
UpsertDoctors(coll, recs, n) ==
    IF n = 0 THEN coll
    ELSE UpdateOneUpsert(UpsertDoctors(coll, recs, n - 1),
                         DoctorQuery(recs[n]), recs[n])

\* History of the writes the store acknowledged: key -> latest data.
HKey(h) == <<"hospital", h.url>>
DKey(d) == <<"doctor", d.name, d.hospital_name>>

AllKeys == {<<"hospital", u>> : u \in Urls}
             \cup {<<"doctor", n, "h1">> : n \in DoctorNames}

RECURSIVE Record(_, _, _, _)
Record(w, recs, n, isHospital) ==
    IF n = 0 THEN w
    ELSE LET k == IF isHospital THEN HKey(recs[n]) ELSE DKey(recs[n])
         IN  [Record(w, recs, n - 1, isHospital) EXCEPT ![k] = recs[n].data]

EmptyDb == [hospitals |-> <<>>, doctors |-> <<>>]

EmptyStaged == [hospitals |-> <<>>, doctors |-> <<>>]

StoreInit ==
    /\ db = EmptyDb
    /\ scraper \in Scrapers
    /\ scraped_data = EmptyStaged
    /\ written = [k \in AllKeys |-> None]

\* A new process: __init__ gives the scraper empty accumulators; the
\* database outlives the process.
NewRun ==
    /\ \E s \in Scrapers : scraper' = s
    /\ scraped_data' = EmptyStaged
    /\ UNCHANGED <<db, written>>

\* self.scraped_data['hospitals'].append(hospital_data)
StageHospital ==
    /\ Len(scraped_data.hospitals) + Len(scraped_data.doctors) < MaxStaged
    /\ \E h \in ScrapedHospitals :
        scraped_data' = [scraped_data EXCEPT !.hospitals = Append(@, h)]
    /\ UNCHANGED <<db, scraper, written>>

\* self.scraped_data['doctors'].extend(doctors), one doctor at a time
StageDoctor ==
    /\ Len(scraped_data.hospitals) + Len(scraped_data.doctors) < MaxStaged
    /\ \E d \in ScrapedDoctors :
        scraped_data' = [scraped_data EXCEPT !.doctors = Append(@, d)]
    /\ UNCHANGED <<db, scraper, written>>

\* The effect of one save: nh hospital operations and nd doctor operations
\* reach the store before the save ends or the store raises.
SaveEffect(nh, nd) ==
    /\ Len(db.hospitals) + nh + Len(db.doctors) + nd <= MaxStore
    /\ db' = [hospitals |-> UpsertHospitals(db.hospitals, scraped_data.hospitals, nh),
              doctors   |-> UpsertDoctors(db.doctors, scraped_data.doctors, nd)]
    /\ written' = Record(Record(written, scraped_data.hospitals, nh, TRUE),
                         scraped_data.doctors, nd, FALSE)
    /\ UNCHANGED <<scraper, scraped_data>>

\* VaidamFastScraper.save_to_mongodb: each collection has its own try, so an
\* error while saving hospitals does not stop the doctors.
SaveFast ==
    /\ scraper = "fast"
    /\ \E nh \in 0..Len(scraped_data.hospitals),
          nd \in 0..Len(scraped_data.doctors) : SaveEffect(nh, nd)

\* VaidamComprehensiveIndiaScraper.save_to_mongodb_comprehensive: one
\* bulk_write per collection, each in its own try.
SaveIndia ==
    /\ scraper = "india"
    /\ \E nh \in 0..Len(scraped_data.hospitals),
          nd \in 0..Len(scraped_data.doctors) : SaveEffect(nh, nd)

\* VaidamLightningScraper.save_to_mongodb_lightning: a single try, so a
\* failed hospital bulk_write skips the doctors.
SaveLightning ==
    /\ scraper = "lightning"
    /\ \E nh \in 0..Len(scraped_data.hospitals),
          nd \in 0..Len(scraped_data.doctors), hfail \in BOOLEAN :
        /\ hfail => nh < Len(scraped_data.hospitals) /\ nd = 0
        /\ ~hfail => nh = Len(scraped_data.hospitals)
        /\ SaveEffect(nh, nd)

\* run_lightning_scrape / run_comprehensive_india_scrape empty the
\* accumulators after the periodic save.
ClearStaged ==
    /\ scraper \in {"lightning", "india"}
    /\ scraped_data # EmptyStaged
    /\ scraped_data' = EmptyStaged
    /\ UNCHANGED <<db, scraper, written>>

OthersIdle ==
    /\ pool = PoolIdle
    /\ match = MatchIdle
    /\ disc = DiscIdle
    /\ fetch = FetchIdle

SaveInit == StoreInit /\ OthersIdle

SaveNext ==
    \/ (NewRun /\ UNCHANGED <<pool, match, disc, fetch>>)
    \/ (StageHospital /\ UNCHANGED <<pool, match, disc, fetch>>)
    \/ (StageDoctor /\ UNCHANGED <<pool, match, disc, fetch>>)
    \/ (SaveFast /\ UNCHANGED <<pool, match, disc, fetch>>)
    \/ (SaveIndia /\ UNCHANGED <<pool, match, disc, fetch>>)
    \/ (SaveLightning /\ UNCHANGED <<pool, match, disc, fetch>>)
    \/ (ClearStaged /\ UNCHANGED <<pool, match, disc, fetch>>)

SpecSave == SaveInit /\ [][SaveNext]_vars

DocsWithHospitalKey(u) == {i \in 1..Len(db.hospitals) : db.hospitals[i].url = u}

DocsWithDoctorKey(n, h) ==
    {i \in 1..Len(db.doctors) :
        db.doctors[i].name = n /\ db.doctors[i].hospital_name = h}

\* C1: after any sequence of scraper saves, every natural key that was
\* written (hospital url; doctor name + hospital_name) is held by exactly one
\* document, and that document carries the data of the latest write to it;
\* a key never written is held by none.
C1_UpsertIdempotent ==
    /\ \A u \in Urls :
        LET ds == DocsWithHospitalKey(u) IN
        IF written[<<"hospital", u>>] = None THEN ds = {}
        ELSE /\ Cardinality(ds) = 1
             /\ \A i \in ds : db.hospitals[i].data = written[<<"hospital", u>>]
    /\ \A n \in DoctorNames :
        LET ds == DocsWithDoctorKey(n, "h1") IN
        IF written[<<"doctor", n, "h1">>] = None THEN ds = {}
        ELSE /\ Cardinality(ds) = 1
             /\ \A i \in ds : db.doctors[i].data = written[<<"doctor", n, "h1">>]

\* Witness of C1: one key was written twice with different payloads (the
\* staged list still holds the older payload p1, the store the later p2).
C1_Witness ==
    /\ written[<<"hospital", "u1">>] = "p2"
    /\ \E i \in 1..Len(scraped_data.hospitals) :
        /\ scraped_data.hospitals[i].url = "u1"
        /\ scraped_data.hospitals[i].data = "p1"
    /\ \E j \in 1..Len(scraped_data.hospitals) :
        /\ scraped_data.hospitals[j].url = "u1"
        /\ scraped_data.hospitals[j].data = "p2"
    /\ Cardinality(DocsWithHospitalKey("u1")) = 1

(***************************************************************************)
(* The other writers: the async scraper's insert_many and the two sheet    *)
(* import scripts.                                                         *)
(***************************************************************************)
\* collection.insert_many(docs) / insert_one(doc): the first n documents are
\* appended (insert_many is ordered and stops at the first error).
InsertMany(coll, docs, n) == coll \o SubSeq(docs, 1, n)

\* self.hospitals.append(hospital) in scrape_single_hospital
StageAsyncHospital ==
    /\ scraper = "comprehensive"
    /\ Len(scraped_data.hospitals) + Len(scraped_data.doctors) < MaxStaged
    /\ \E h \in AsyncHospitals :
        scraped_data' = [scraped_data EXCEPT !.hospitals = Append(@, h)]
    /\ UNCHANGED <<db, scraper, written>>

\* self.doctors.extend(doctors) in scrape_single_hospital
StageAsyncDoctor ==
    /\ scraper = "comprehensive"
    /\ Len(scraped_data.hospitals) + Len(scraped_data.doctors) < MaxStaged
    /\ \E d \in AsyncDoctors :
        scraped_data' = [scraped_data EXCEPT !.doctors = Append(@, d)]
    /\ UNCHANGED <<db, scraper, written>>

\* VaidamComprehensiveScraper.save_to_mongodb: insert_many per collection
\* inside a single try; the run ends after it, so the next step starts from
\* a fresh process with empty lists.
SaveComprehensive ==
    /\ scraper = "comprehensive"
    /\ scraped_data # EmptyStaged
    /\ \E nh \in 0..Len(scraped_data.hospitals),
          nd \in 0..Len(scraped_data.doctors), hfail \in BOOLEAN :
        /\ hfail => nh < Len(scraped_data.hospitals) /\ nd = 0
        /\ ~hfail => nh = Len(scraped_data.hospitals)
        /\ Len(db.hospitals) + nh + Len(db.doctors) + nd <= MaxDocs
        /\ db' = [hospitals |-> InsertMany(db.hospitals, scraped_data.hospitals, nh),
                  doctors   |-> InsertMany(db.doctors, scraped_data.doctors, nd)]
    /\ scraped_data' = EmptyStaged
    /\ UNCHANGED <<scraper, written>>

\* One row of the sheet: the document its transform yields, or "error" when
\* transform_* or the insert raises for that row.
RowOk(doc) == [ok |-> TRUE, doc |-> doc]
RowError == [ok |-> FALSE]

HospitalSheets == SeqsUpTo({RowOk(d) : d \in SheetHospitals} \cup {RowError}, MaxRows)

DoctorSheets == SeqsUpTo({RowOk(d) : d \in SheetDoctors} \cup {RowError}, MaxRows)

\* The for-loop of import_to_mongodb over the rows 1..n of df.
RECURSIVE ImportHospitalRows(_, _, _, _)
ImportHospitalRows(coll, df, n, fresh_import) ==
    IF n = 0 THEN coll
    ELSE LET before == ImportHospitalRows(coll, df, n - 1, fresh_import)
             row == df[n]
         IN  IF ~row.ok THEN before
             ELSE IF /\ ~fresh_import
                     /\ FirstMatch(before, [name |-> row.doc.name,
                                            location_city |-> row.doc.location_city]) # 0
                  THEN before
                  ELSE Append(before, row.doc)

\* import_to_mongodb(df, fresh_import): with fresh_import the operator is
\* asked to confirm; "yes" drops the collection, "no" returns at once.
ImportHospitals ==
    /\ \E df \in HospitalSheets, fresh_import \in BOOLEAN, confirm \in BOOLEAN :
        LET start == IF fresh_import THEN <<>> ELSE db.hospitals
            after == ImportHospitalRows(start, df, Len(df), fresh_import)
        IN  /\ Len(after) + Len(db.doctors) <= MaxDocs
            /\ IF fresh_import /\ ~confirm
               THEN db' = db
               ELSE db' = [db EXCEPT !.hospitals = after]
    /\ UNCHANGED <<scraper, scraped_data, written>>

\* The for-loop of import_doctors_to_mongodb over the rows 1..n of df.
RECURSIVE ImportDoctorRows(_, _, _)
ImportDoctorRows(coll, df, n) ==
    IF n = 0 THEN coll
    ELSE LET before == ImportDoctorRows(coll, df, n - 1)
             row == df[n]
         IN  IF ~row.ok THEN before
             ELSE IF FirstMatch(before, [name |-> row.doc.name,
                        hospital_name_nested |-> row.doc.hospital_name_nested]) # 0
                  THEN before
                  ELSE Append(before, row.doc)

\* import_doctors_to_mongodb(df, map_to_hospitals = False): option 1 of
\* main(), doctors only; no hospital document is touched.
ImportDoctors ==
    /\ \E df \in DoctorSheets :
        LET after == ImportDoctorRows(db.doctors, df, Len(df))
        IN  /\ Len(after) + Len(db.hospitals) <= MaxDocs
            /\ db' = [db EXCEPT !.doctors = after]
    /\ UNCHANGED <<scraper, scraped_data, written>>

WritersInit ==
    /\ db = EmptyDb
    /\ scraper = "comprehensive"
    /\ scraped_data = EmptyStaged
    /\ written = [k \in AllKeys |-> None]
    /\ OthersIdle

WritersNext ==
    \/ (StageAsyncHospital /\ UNCHANGED <<pool, match, disc, fetch>>)
    \/ (StageAsyncDoctor /\ UNCHANGED <<pool, match, disc, fetch>>)
    \/ (SaveComprehensive /\ UNCHANGED <<pool, match, disc, fetch>>)
    \/ (ImportHospitals /\ UNCHANGED <<pool, match, disc, fetch>>)
    \/ (ImportDoctors /\ UNCHANGED <<pool, match, disc, fetch>>)

SpecWriters == WritersInit /\ [][WritersNext]_vars

\* Two documents of one collection agree on every field of a natural key
\* that both of them carry.
SameKey(a, b, fields) ==
    /\ fields \subseteq DOMAIN a
    /\ fields \subseteq DOMAIN b
    /\ \A f \in fields : a[f] = b[f]

NoTwoWithKey(coll, fields) ==
    \A i, j \in 1..Len(coll) : i # j => ~SameKey(coll[i], coll[j], fields)

\* C2: after any sequence of complete runs of the writers, no collection
\* holds two documents with the same natural key (hospital: page URL, or
\* name + city; doctor: name + hospital name).
C2_NoDuplicateKeys ==
    /\ NoTwoWithKey(db.hospitals, {"link"})
    /\ NoTwoWithKey(db.hospitals, {"name", "location_city"})
    /\ NoTwoWithKey(db.doctors, {"name", "hospital"})
    /\ NoTwoWithKey(db.doctors, {"name", "hospital_name_nested"})

(***************************************************************************)
(* The worker pool of VaidamComprehensiveScraper.run_comprehensive_scrape  *)
(***************************************************************************)
MaxUrls == 22           \* discovered hospital URLs of one run

SemaphoreLimit == 5     \* asyncio.Semaphore(5)
batch_size == 20

\* The tasks of a batch run the same coroutine, so the pool is described by
\* how many tasks stand at each await of scrape_single_hospital:
\*   waiting     before "async with semaphore" lets them in
\*   inHospital  inside, awaiting scrape_hospital_details(url)
\*   inDoctors   inside, awaiting scrape_doctors_for_hospital(hospital)
\*   sleeping    inside, awaiting the rate-limiting asyncio.sleep
\*   finished    left the "async with" (normally or by an exception)
PoolStart(n) ==
    [pc |-> "batches", todo |-> n, waiting |-> 0, inHospital |-> 0,
     inDoctors |-> 0, sleeping |-> 0, finished |-> 0,
     semaphore |-> SemaphoreLimit, hospitals |-> 0]

\* asyncio.Semaphore.acquire returns at once only while the value is
\* positive; written as a bug would write it: never blocks.
SemaphoreNeverBlocks(value) == TRUE

\* asyncio.Semaphore.acquire returns only while the value is positive.
SemaphoreFree(value) == value > 0

InFlight == pool.inHospital + pool.inDoctors + pool.sleeping

\* for i in range(0, len(hospital_urls), batch_size): the tasks of the next
\* batch are created once gather() of the previous batch has returned.
StartBatch ==
    /\ pool.pc = "batches"
    /\ pool.waiting = 0 /\ InFlight = 0
    /\ pool.todo > 0
    /\ LET k == IF pool.todo < batch_size THEN pool.todo ELSE batch_size
       IN  pool' = [pool EXCEPT !.todo = @ - k, !.waiting = k, !.finished = 0]

\* async with semaphore: __aenter__
Acquire ==
    /\ pool.pc = "batches"
    /\ pool.waiting > 0
    /\ SemaphoreFree(pool.semaphore)
    /\ pool' = [pool EXCEPT !.waiting = @ - 1, !.inHospital = @ + 1,
                            !.semaphore = @ - 1]

\* scrape_hospital_details returned a hospital: it is appended and the
\* doctors are fetched.
HospitalScraped ==
    /\ pool.pc = "batches"
    /\ pool.inHospital > 0
    /\ pool' = [pool EXCEPT !.inHospital = @ - 1, !.inDoctors = @ + 1,
                            !.hospitals = @ + 1]

\* scrape_hospital_details returned None: straight to the rate-limit sleep.
HospitalMissing ==
    /\ pool.pc = "batches"
    /\ pool.inHospital > 0
    /\ pool' = [pool EXCEPT !.inHospital = @ - 1, !.sleeping = @ + 1]

\* scrape_doctors_for_hospital returned.
DoctorsScraped ==
    /\ pool.pc = "batches"
    /\ pool.inDoctors > 0
    /\ pool' = [pool EXCEPT !.inDoctors = @ - 1, !.sleeping = @ + 1]

\* An exception leaves the "async with" block: __aexit__ releases the
\* semaphore and gather(return_exceptions=True) records the exception.
TaskRaises ==
    /\ pool.pc = "batches"
    /\ \/ /\ pool.inHospital > 0
          /\ pool' = [pool EXCEPT !.inHospital = @ - 1, !.finished = @ + 1,
                                  !.semaphore = @ + 1]
       \/ /\ pool.inDoctors > 0
          /\ pool' = [pool EXCEPT !.inDoctors = @ - 1, !.finished = @ + 1,
                                  !.semaphore = @ + 1]

\* The sleep is over: __aexit__ releases the semaphore.
Release ==
    /\ pool.pc = "batches"
    /\ pool.sleeping > 0
    /\ pool' = [pool EXCEPT !.sleeping = @ - 1, !.finished = @ + 1,
                            !.semaphore = @ + 1]

\* The last gather() returned: the loop over the batches is over.
BatchesDone ==
    /\ pool.pc = "batches"
    /\ pool.waiting = 0 /\ InFlight = 0 /\ pool.todo = 0
    /\ pool' = [pool EXCEPT !.pc = "done"]

PoolInit ==
    /\ db = EmptyDb
    /\ scraper = "comprehensive"
    /\ scraped_data = EmptyStaged
    /\ written = [k \in AllKeys |-> None]
    /\ \E n \in 0..MaxUrls : pool = PoolStart(n)
    /\ match = MatchIdle
    /\ disc = DiscIdle
    /\ fetch = FetchIdle

PoolNext ==
    \/ (StartBatch /\ UNCHANGED <<storeVars, match, disc, fetch>>)
    \/ (Acquire /\ UNCHANGED <<storeVars, match, disc, fetch>>)
    \/ (HospitalScraped /\ UNCHANGED <<storeVars, match, disc, fetch>>)
    \/ (HospitalMissing /\ UNCHANGED <<storeVars, match, disc, fetch>>)
    \/ (DoctorsScraped /\ UNCHANGED <<storeVars, match, disc, fetch>>)
    \/ (TaskRaises /\ UNCHANGED <<storeVars, match, disc, fetch>>)
    \/ (Release /\ UNCHANGED <<storeVars, match, disc, fetch>>)
    \/ (BatchesDone /\ UNCHANGED <<storeVars, match, disc, fetch>>)

SpecPool == PoolInit /\ [][PoolNext]_vars

\* C3: the number of units of work inside the semaphore (hospital fetch,
\* doctor fetch or the closing sleep) never exceeds the limit 5.
C3_InFlightBounded == pool.pc # "idle" => InFlight <= SemaphoreLimit

\* Witness of C3: the limit is reached while more tasks of the batch wait.
C3_Witness ==
    /\ pool.pc = "batches"
    /\ InFlight = SemaphoreLimit
    /\ pool.waiting > 0
    /\ pool.inDoctors > 0

(***************************************************************************)
(* Text: strings are sequences of one-character atoms                      *)
(***************************************************************************)
UpperChars == <<"A", "B", "C", "D", "E", "F", "G", "H", "I", "J", "K", "L", "M",
                "N", "O", "P", "Q", "R", "S", "T", "U", "V", "W", "X", "Y", "Z">>

LowerChars == <<"a", "b", "c", "d", "e", "f", "g", "h", "i", "j", "k", "l", "m",
                "n", "o", "p", "q", "r", "s", "t", "u", "v", "w", "x", "y", "z">>

\* str.lower() on one character
LowerChar(ch) ==
    IF \E i \in 1..Len(UpperChars) : UpperChars[i] = ch
    THEN LowerChars[CHOOSE i \in 1..Len(UpperChars) : UpperChars[i] = ch]
    ELSE ch

\* str.lower()
Lower(str) == [i \in 1..Len(str) |-> LowerChar(str[i])]

IsSpace(ch) == ch = " "

RECURSIVE LStrip(_)
LStrip(str) ==
    IF Len(str) > 0 /\ IsSpace(str[1]) THEN LStrip(Tail(str)) ELSE str

RECURSIVE RStrip(_)
RStrip(str) ==
    IF Len(str) > 0 /\ IsSpace(str[Len(str)])
    THEN RStrip(SubSeq(str, 1, Len(str) - 1)) ELSE str

\* str.strip()
Strip(str) == RStrip(LStrip(str))

\* re.sub(r'\s+', ' ', str): every run of whitespace becomes one blank.
RECURSIVE CollapseSpaces(_)
CollapseSpaces(str) ==
    IF Len(str) = 0 THEN <<>>
    ELSE IF IsSpace(str[1])
         THEN <<" ">> \o CollapseSpaces(LStrip(str))
         ELSE <<str[1]>> \o CollapseSpaces(Tail(str))

\* x in y, for strings
IsSubstring(x, y) ==
    \E i \in 0..(Len(y) - Len(x)) : SubSeq(y, i + 1, i + Len(x)) = x

(***************************************************************************)
(* enhanced_doctors_import.py: clean_hospital_name, find_matching_hospital *)
(***************************************************************************)
MaxCands == 3       \* candidates handed to one call of the matcher

\* The alternation of the pattern in clean_hospital_name, in its order.
CityTokens ==
    << <<"N", "e", "w", " ", "D", "e", "l", "h", "i">>,
       <<"D", "e", "l", "h", "i">>,
       <<"M", "u", "m", "b", "a", "i">>,
       <<"B", "a", "n", "g", "a", "l", "o", "r", "e">>,
       <<"C", "h", "e", "n", "n", "a", "i">>,
       <<"K", "o", "l", "k", "a", "t", "a">>,
       <<"H", "y", "d", "e", "r", "a", "b", "a", "d">>,
       <<"P", "u", "n", "e">>,
       <<"G", "u", "r", "g", "a", "o", "n">> >>

\* tail matches  ,?\s*(New Delhi|Delhi|...|Gurgaon)  from its first to its
\* last character, ignoring case.
MatchesCityTail(tail) ==
    LET t1 == IF Len(tail) > 0 /\ tail[1] = "," THEN Tail(tail) ELSE tail
        t2 == LStrip(t1)
    IN  \E c \in 1..Len(CityTokens) : Lower(t2) = Lower(CityTokens[c])

\* re.sub(r',?\s*(...)$', '', str, flags=re.IGNORECASE): the leftmost
\* position from which the rest of the string matches is cut off.
RemoveCitySuffix(str) ==
    LET starts == {i \in 1..Len(str) : MatchesCityTail(SubSeq(str, i, Len(str)))}
    IN  IF starts = {} THEN str
        ELSE SubSeq(str, 1, (CHOOSE i \in starts : \A j \in starts : i <= j) - 1)

clean_hospital_name(hospital_name) ==
    Strip(CollapseSpaces(RemoveCitySuffix(Strip(hospital_name))))

\* ---- difflib.SequenceMatcher(None, a, b).ratio() ----
\* Length of the common run of a and b that starts at a[i] and b[j] and
\* stays below ahi and bhi (half-open ranges as in difflib, 1-based).
RECURSIVE CommonRun(_, _, _, _, _, _)
CommonRun(a, i, ahi, b, j, bhi) ==
    IF i < ahi /\ j < bhi /\ a[i] = b[j]
    THEN 1 + CommonRun(a, i + 1, ahi, b, j + 1, bhi)
    ELSE 0

SetMax(S) == CHOOSE x \in S : \A y \in S : y <= x

SetMin(S) == CHOOSE x \in S : \A y \in S : x <= y

\* find_longest_match(alo, ahi, blo, bhi): the longest block; of those the
\* one that starts earliest in a; of those the one that starts earliest in
\* b.  No junk: isjunk is None and b is shorter than 200 characters.
FindLongestMatch(a, alo, ahi, b, blo, bhi) ==
    LET k == SetMax({0} \cup {CommonRun(a, i, ahi, b, j, bhi) :
                                i \in alo..(ahi - 1), j \in blo..(bhi - 1)})
    IN  IF k = 0 THEN <<alo, blo, 0>>
        ELSE LET i == SetMin({x \in alo..(ahi - 1) :
                            \E y \in blo..(bhi - 1) :
                                CommonRun(a, x, ahi, b, y, bhi) = k})
                 j == SetMin({y \in blo..(bhi - 1) :
                                CommonRun(a, i, ahi, b, y, bhi) = k})
             IN  <<i, j, k>>

\* get_matching_blocks: total size of the blocks found by splitting around
\* the longest match, left and right.
RECURSIVE MatchingSize(_, _, _, _, _, _)
MatchingSize(a, alo, ahi, b, blo, bhi) ==
    IF alo >= ahi \/ blo >= bhi THEN 0
    ELSE LET m == FindLongestMatch(a, alo, ahi, b, blo, bhi)
         IN  IF m[3] = 0 THEN 0
             ELSE m[3] + MatchingSize(a, alo, m[1], b, blo, m[2])
                       + MatchingSize(a, m[1] + m[3], ahi, b, m[2] + m[3], bhi)

\* A score is a fraction <<numerator, denominator>> with denominator > 0.
Frac(n, d) == <<n, d>>

FracGT(x, y) == x[1] * y[2] > y[1] * x[2]

FracEQ(x, y) == x[1] * y[2] = y[1] * x[2]

FracAdd(x, y) == <<x[1] * y[2] + y[1] * x[2], x[2] * y[2]>>

\* ratio(): 2.0 * matches / (len(a) + len(b)), and 1.0 for two empty strings
Ratio(a, b) ==
    IF Len(a) + Len(b) = 0 THEN Frac(1, 1)
    ELSE Frac(2 * MatchingSize(a, 1, Len(a) + 1, b, 1, Len(b) + 1),
              Len(a) + Len(b))

Threshold == Frac(6, 10)

\* 0.2 if clean_doctor_city and clean_doctor_city == hospital_city else 0,
\* with the test on the cities lost.
CityBonusAlways(clean_doctor_city, hospital_city) == Frac(2, 10)

\* 0.2 if clean_doctor_city and clean_doctor_city == hospital_city else 0
CityBonus(clean_doctor_city, hospital_city) ==
    IF clean_doctor_city # <<>> /\ clean_doctor_city = hospital_city
    THEN Frac(2, 10) ELSE Frac(0, 1)

\* 0.3 if clean_doctor_hospital in hospital_name else 0: the test in one
\* direction only.
SubstringBonusOneWay(clean_doctor_hospital, hospital_name) ==
    IF IsSubstring(clean_doctor_hospital, hospital_name)
    THEN Frac(3, 10) ELSE Frac(0, 1)

\* 0.3 if either name contains the other else 0
SubstringBonus(clean_doctor_hospital, hospital_name) ==
    IF \/ IsSubstring(clean_doctor_hospital, hospital_name)
       \/ IsSubstring(hospital_name, clean_doctor_hospital)
    THEN Frac(3, 10) ELSE Frac(0, 1)

\* total_score of one candidate
TotalScore(doctor_hospital, doctor_city, hospital) ==
    LET clean_doctor_hospital == Lower(clean_hospital_name(doctor_hospital))
        clean_doctor_city == Lower(doctor_city)
        hospital_name == Lower(hospital.name)
        hospital_city == Lower(hospital.city)
    IN  FracAdd(FracAdd(Ratio(clean_doctor_hospital, hospital_name),
                        CityBonus(clean_doctor_city, hospital_city)),
                SubstringBonus(clean_doctor_hospital, hospital_name))

\* ---- inputs ----
ApolloHospital == <<"A", "p", "o", "l", "l", "o", " ", "H", "o", "s", "p", "i", "t", "a", "l">>

ApolloHospitals == ApolloHospital \o <<"s">>

Chennai == <<"C", "h", "e", "n", "n", "a", "i">>

Mumbai == <<"M", "u", "m", "b", "a", "i">>

FortisClinic == <<"F", "o", "r", "t", "i", "s", " ", "C", "l", "i", "n", "i", "c">>

\* Values of row['Hospital'] after strip()
DoctorHospitals ==
    { <<>>,
      ApolloHospital,
      ApolloHospital \o <<",", " ">> \o Chennai,
      <<"A", "p", "o", "l", "l", "o", " ", " ", "H", "o", "s", "p", "i", "t", "a", "l", "s">>,
      Chennai,
      <<"a", "b">>,
      <<"a", "b", "c", "d">> }

\* Values of parse_location(row['Location'])['city']
DoctorCities == { <<>>, Chennai, Lower(Chennai), Mumbai }

\* Documents of hospitals_collection.find({}, {_id, name, location})
Candidates ==
    { [id |-> "o1", name |-> ApolloHospitals, city |-> Chennai],
      [id |-> "o2", name |-> ApolloHospitals, city |-> Chennai],
      [id |-> "o3", name |-> FortisClinic, city |-> Mumbai],
      [id |-> "o4", name |-> <<"b", "c", "d">>, city |-> Chennai],
      [id |-> "o5", name |-> <<"a", "b", "c", "x", "y", "z">>, city |-> Mumbai],
      [id |-> "o6", name |-> ApolloHospital, city |-> Mumbai] }

\* Lists without repetition: every document of the collection appears once.
CandidateLists ==
    {l \in SeqsUpTo(Candidates, MaxCands) :
        \A i, j \in 1..Len(l) : i # j => l[i] # l[j]}

\* total_score of every input, evaluated once.
TotalScores ==
    [dh \in DoctorHospitals |-> [dc \in DoctorCities |-> [h \in Candidates |->
        TotalScore(dh, dc, h)]]]

\* total_score > 0.6.  The sum is a binary floating-point sum: it differs
\* from the exact sum by less than any gap between two totals except when
\* the exact total is six tenths, where 0.4 + 0.2 and 0.1 + 0.2 + 0.3
\* evaluate to 0.6000000000000001 while 0.6 and 0.3 + 0.3 evaluate to 0.6.
AboveThreshold(total, cityBonus) ==
    \/ FracGT(total, Threshold)
    \/ FracEQ(total, Threshold) /\ FracGT(cityBonus, Frac(0, 1))

\* The test of the loop with >= in place of >: the last candidate at the
\* maximum would win.
BeatsOrTies(total, best_score) == ~FracGT(best_score, total)

\* total_score > best_score
Beats(total, best_score) == FracGT(total, best_score)

\* The loop of find_matching_hospital over hospitals_data[1..n]: the pair
\* (best_match, best_score) after n candidates.
RECURSIVE BestAfter(_, _, _, _)
BestAfter(doctor_hospital, doctor_city, hospitals_data, n) ==
    IF n = 0 THEN [best_match |-> None, best_score |-> Frac(0, 1)]
    ELSE LET prev == BestAfter(doctor_hospital, doctor_city, hospitals_data, n - 1)
             hospital == hospitals_data[n]
             total == TotalScores[doctor_hospital][doctor_city][hospital]
             bonus == CityBonus(Lower(doctor_city), Lower(hospital.city))
         IN  IF Beats(total, prev.best_score) /\ AboveThreshold(total, bonus)
             THEN [best_match |-> hospital.id, best_score |-> total]
             ELSE prev

find_matching_hospital(doctor_hospital, doctor_city, hospitals_data) ==
    IF doctor_hospital = <<>> \/ hospitals_data = <<>> THEN None
    ELSE BestAfter(doctor_hospital, doctor_city, hospitals_data,
                   Len(hospitals_data)).best_match

MatchInit ==
    /\ db = EmptyDb
    /\ scraper = "import_doctors"
    /\ scraped_data = EmptyStaged
    /\ written = [k \in AllKeys |-> None]
    /\ pool = PoolIdle
    /\ \E dh \in DoctorHospitals, dc \in DoctorCities, hd \in CandidateLists :
        match = [pc |-> "call", doctor_hospital |-> dh, doctor_city |-> dc,
                 hospitals_data |-> hd, result |-> None]
    /\ disc = DiscIdle
    /\ fetch = FetchIdle

\* hospital_id = find_matching_hospital(doctor_hospital, doctor_city, hospitals_data)
FindMatchingHospital ==
    /\ match.pc = "call"
    /\ match' = [match EXCEPT !.pc = "returned",
                    !.result = find_matching_hospital(match.doctor_hospital,
                                    match.doctor_city, match.hospitals_data)]
    /\ UNCHANGED <<storeVars, pool, disc, fetch>>

MatchNext == FindMatchingHospital

SpecMatch == MatchInit /\ [][MatchNext]_vars

\* The candidates of the call that pass "total_score > 0.6".
Accepted ==
    {i \in 1..Len(match.hospitals_data) :
        AboveThreshold(
            TotalScores[match.doctor_hospital][match.doctor_city][match.hospitals_data[i]],
            CityBonus(Lower(match.doctor_city), Lower(match.hospitals_data[i].city)))}

ScoreOf(i) ==
    TotalScores[match.doctor_hospital][match.doctor_city][match.hospitals_data[i]]

ApolloChennai == [id |-> "o1", name |-> ApolloHospitals, city |-> Chennai]

\* C5: "Apollo Hospital" in "Chennai" against the single candidate
\* "Apollo Hospitals" in Chennai scores above 0.6 and returns it; a single
\* candidate in another city whose name similarity is at most 0.6 and that
\* neither contains nor is contained in the name yields None.
C5_ApolloExample ==
    match.pc = "returned" =>
        /\ (/\ match.doctor_hospital = ApolloHospital
            /\ match.doctor_city = Chennai
            /\ match.hospitals_data = <<ApolloChennai>>)
           => /\ match.result = "o1"
              /\ FracGT(TotalScores[ApolloHospital][Chennai][ApolloChennai], Threshold)
        /\ (/\ match.doctor_hospital # <<>>
            /\ Len(match.hospitals_data) = 1
            /\ Lower(match.doctor_city) # Lower(match.hospitals_data[1].city)
            /\ LET a == Lower(clean_hospital_name(match.doctor_hospital))
                   b == Lower(match.hospitals_data[1].name)
               IN  /\ ~IsSubstring(a, b)
                   /\ ~IsSubstring(b, a)
                   /\ ~FracGT(Ratio(a, b), Threshold))
           => match.result = None

\* Witness of C5: the Apollo call has returned document 1.
C5_Witness ==
    /\ match.pc = "returned"
    /\ match.doctor_hospital = ApolloHospital
    /\ match.doctor_city = Chennai
    /\ match.hospitals_data = <<ApolloChennai>>
    /\ match.result = "o1"

(***************************************************************************)
(* URLs and the regular expressions of the detail-page validators.         *)
(* A URL is a sequence of atoms: "/" and the tokens between the slashes,   *)
(* cut so that each literal of a pattern is a sequence of whole atoms      *)
(* ("hospitals" is "hospital" "s", "listing" is "list" "ing").             *)
(***************************************************************************)
MaxSegs == 3        \* path segments after /hospital(s)/ in a modelled URL

AlphaAtoms == {"hospital", "Hospital", "s", "india", "chennai", "apollo",
               "search", "category", "list", "ing", "detail", "clinic"}

DigitAtoms == {"2"}

\* str.lower() / re.IGNORECASE on an atom
AtomLower(a) == IF a = "Hospital" THEN "hospital" ELSE a

InClass(a, c) ==
    CASE c = "notslash"  -> a # "/"                         \* [^/]
      [] c = "alphadash" -> a \in AlphaAtoms \cup {"-"}     \* [a-zA-Z\-]
      [] c = "digit"     -> a \in DigitAtoms                \* \d
      [] c = "any"       -> TRUE                            \* .

\* Pattern elements
Lit(a) == [t |-> "lit", a |-> a]
Opt(a) == [t |-> "opt", a |-> a]
Plus(c) == [t |-> "plus", c |-> c]
Star(c) == [t |-> "star", c |-> c]
End == [t |-> "end"]

AtomEq(a, b, ignorecase) ==
    IF ignorecase THEN AtomLower(a) = AtomLower(b) ELSE a = b

\* The pattern pat, from its element pi on, matches str from position si.
RECURSIVE MatchHere(_, _, _, _, _)
MatchHere(pat, pi, str, si, ignorecase) ==
    IF pi > Len(pat) THEN TRUE
    ELSE LET e == pat[pi] IN
         CASE e.t = "lit" ->
                /\ si <= Len(str)
                /\ AtomEq(str[si], e.a, ignorecase)
                /\ MatchHere(pat, pi + 1, str, si + 1, ignorecase)
           [] e.t = "opt" ->
                \/ /\ si <= Len(str)
                   /\ AtomEq(str[si], e.a, ignorecase)
                   /\ MatchHere(pat, pi + 1, str, si + 1, ignorecase)
                \/ MatchHere(pat, pi + 1, str, si, ignorecase)
           [] e.t = "plus" ->
                \E k \in 1..(Len(str) - si + 1) :
                    /\ \A j \in si..(si + k - 1) : InClass(str[j], e.c)
                    /\ MatchHere(pat, pi + 1, str, si + k, ignorecase)
           [] e.t = "star" ->
                \E k \in 0..(Len(str) - si + 1) :
                    /\ \A j \in si..(si + k - 1) : InClass(str[j], e.c)
                    /\ MatchHere(pat, pi + 1, str, si + k, ignorecase)
           [] e.t = "end" ->
                /\ si = Len(str) + 1
                /\ MatchHere(pat, pi + 1, str, si, ignorecase)

\* re.search(pat, str) / re.search(pat, str, re.IGNORECASE)
Search(pat, str, ignorecase) ==
    \E i \in 1..(Len(str) + 1) : MatchHere(pat, 1, str, i, ignorecase)

SearchAny(pats, str, ignorecase) ==
    \E p \in 1..Len(pats) : Search(pats[p], str, ignorecase)

\* self.base_url = "https://www.vaidam.com"
base_url == <<"https:", "/", "/", "www.vaidam.com">>

OtherOrigin == <<"https:", "/", "/", "example.org">>

StartsWith(str, prefix) ==
    Len(str) >= Len(prefix) /\ SubSeq(str, 1, Len(prefix)) = prefix

\* r'/hospitals?/'
Hospitals_ == <<Lit("/"), Lit("hospital"), Opt("s"), Lit("/")>>

\* r'/hospitals/'
HospitalsS_ == <<Lit("/"), Lit("hospital"), Lit("s"), Lit("/")>>

Seg == <<Plus("notslash")>>         \* [^/]+

SlashSeg == <<Lit("/"), Plus("notslash")>>

OptSlashEnd == <<Opt("/"), End>>    \* /?$

\* valid_patterns of VaidamSimpleScraper.is_valid_hospital_url
SimplePatterns ==
    << Hospitals_ \o Seg \o OptSlashEnd,
       <<Lit("/"), Lit("hospital"), Lit("/")>> \o Seg \o OptSlashEnd,
       <<Lit("/"), Lit("hospital"), Lit("-"), Lit("detail"), Lit("/")>> \o Seg \o OptSlashEnd,
       Hospitals_ \o <<Lit("india"), Lit("/")>> \o Seg \o OptSlashEnd >>

\* valid_patterns of VaidamFastScraper.is_valid_hospital_url
FastPatterns ==
    SimplePatterns \o
    << Hospitals_ \o <<Plus("alphadash"), Lit("/")>> \o Seg \o OptSlashEnd >>

\* hospital_patterns of VaidamComprehensiveScraper.is_hospital_url
AsyncPatterns ==
    << Hospitals_ \o Seg \o OptSlashEnd,
       <<Lit("/"), Lit("hospital"), Lit("-"), Lit("detail"), Lit("/")>> \o Seg \o OptSlashEnd,
       Hospitals_ \o <<Lit("india"), Lit("/")>> \o Seg \o OptSlashEnd >>

\* valid_patterns of is_valid_hospital_url_comprehensive
IndiaValidPatterns ==
    << Hospitals_ \o Seg \o <<Lit("/"), Lit("hospital"), Lit("-")>> \o Seg,
       Hospitals_ \o Seg \o <<Lit(".html")>>,
       <<Lit("/"), Lit("hospital"), Lit("/")>> \o Seg,
       HospitalsS_ \o Seg \o SlashSeg \o SlashSeg,
       Hospitals_ \o <<Lit("india"), Lit("/")>> \o Seg \o SlashSeg >>

\* exclude_patterns of is_valid_hospital_url_comprehensive
IndiaExcludePatterns ==
    << <<Lit("/"), Lit("hospital"), Opt("s")>> \o OptSlashEnd,
       Hospitals_ \o Seg \o OptSlashEnd,
       Hospitals_ \o <<Lit("india")>> \o OptSlashEnd,
       Hospitals_ \o Seg \o SlashSeg \o OptSlashEnd,
       <<Lit("page=")>>,
       <<Lit("search")>>,
       <<Lit("filter")>>,
       <<Lit("category")>> >>

\* valid_patterns of is_valid_hospital_url_lightning
LightningValidPatterns ==
    << Hospitals_ \o Seg \o <<Lit("/"), Lit("hospital"), Lit("-")>> \o Seg,
       Hospitals_ \o Seg \o <<Lit(".html")>>,
       <<Lit("/"), Lit("hospital"), Lit("/")>> \o Seg,
       HospitalsS_ \o Seg \o SlashSeg \o SlashSeg \o SlashSeg,
       HospitalsS_ \o <<Star("any"), Lit("hospital"), Star("any"), Lit(".html")>>,
       <<Lit("/"), Lit("hospital"), Lit("-"), Lit("detail"), Lit("s"), Lit("/")>>,
       <<Lit("/"), Lit("hospital"), Lit("_"), Lit("detail"), Lit("s"), Lit("/")>>,
       HospitalsS_ \o <<Plus("any"), Lit("/"), Plus("any"), Lit("/"), Plus("any")>> >>

\* r'page=|search|filter|list|index'
LightningListingPatterns ==
    << <<Lit("page=")>>, <<Lit("search")>>, <<Lit("filter")>>,
       <<Lit("list")>>, <<Lit("index")>> >>

\* exclude_patterns of is_valid_hospital_url_lightning
LightningExcludePatterns ==
    << <<Lit("/"), Lit("hospital"), Opt("s")>> \o OptSlashEnd,
       Hospitals_ \o Seg \o OptSlashEnd,
       Hospitals_ \o Seg \o SlashSeg \o OptSlashEnd,
       <<Lit("page="), Plus("digit")>>,
       <<Lit("search")>>,
       <<Lit("filter")>>,
       <<Lit("category")>>,
       <<Lit("list"), Lit("ing")>> >>

\* hospital_keywords of is_valid_hospital_url_lightning
HospitalKeywords == {"hospital", "medical", "healthcare", "clinic"}

\* len(url.split('/'))
SplitCount(url) == 1 + Cardinality({i \in 1..Len(url) : url[i] = "/"})

\* VaidamSimpleScraper.is_valid_hospital_url
is_valid_hospital_url_simple(url) ==
    IF ~StartsWith(url, base_url) THEN FALSE
    ELSE SearchAny(SimplePatterns, url, FALSE)

\* VaidamFastScraper.is_valid_hospital_url
is_valid_hospital_url_fast(url) ==
    IF ~StartsWith(url, base_url) THEN FALSE
    ELSE SearchAny(FastPatterns, url, FALSE)

\* VaidamComprehensiveScraper.is_hospital_url
is_hospital_url(url) ==
    IF ~StartsWith(url, base_url) THEN FALSE
    ELSE SearchAny(AsyncPatterns, url, FALSE)

\* VaidamComprehensiveIndiaScraper.is_valid_hospital_url_comprehensive: the
\* loop over valid_patterns returns True at the first match; whatever the
\* loop over exclude_patterns finds, the function then returns False.
is_valid_hospital_url_comprehensive(url) ==
    IF ~StartsWith(url, base_url) THEN FALSE
    ELSE IF SearchAny(IndiaValidPatterns, url, FALSE) THEN TRUE
    ELSE IF SearchAny(IndiaExcludePatterns, url, FALSE) THEN FALSE
    ELSE FALSE

\* VaidamLightningScraper.is_valid_hospital_url_lightning
is_valid_hospital_url_lightning(url) ==
    IF /\ SearchAny(LightningValidPatterns, url, TRUE)
       /\ ~SearchAny(LightningListingPatterns, url, TRUE)
    THEN TRUE
    ELSE IF SearchAny(LightningExcludePatterns, url, TRUE) THEN FALSE
    ELSE \E keyword \in HospitalKeywords :
            /\ \E i \in 1..Len(url) : AtomLower(url[i]) = keyword
            /\ SplitCount(url) > 4

\* ---- the URLs explored ----
FirstSegments == { <<"hospital", "s">>, <<"hospital">> }

Segments ==
    { <<"india">>, <<"chennai">>,
      <<"hospital", "-", "apollo">>, <<"Hospital", "-", "apollo">>,
      <<"apollo", ".html">>, <<"search">>, <<"category">>,
      <<"list", "ing">>, <<"apollo", "-", "clinic">> }

Queries == { <<>>, <<"?", "page=", "2">>, <<"?", "ref", "=", "2">> }

RECURSIVE JoinPath(_)
JoinPath(segs) ==
    IF Len(segs) = 0 THEN <<>>
    ELSE <<"/">> \o Head(segs) \o JoinPath(Tail(segs))

UrlPool ==
    {origin \o JoinPath(<<first>> \o rest) \o slash \o query :
        origin \in {base_url, OtherOrigin},
        first \in FirstSegments,
        rest \in SeqsUpTo(Segments, MaxSegs),
        slash \in {<<>>, <<"/">>},
        query \in Queries}

BareListingIndia == base_url \o <<"/", "hospital", "s", "/", "india">>

DetailApollo ==
    base_url \o <<"/", "hospital", "s", "/", "chennai", "/", "hospital", "-", "apollo">>

Verdicts(url) ==
    [simple    |-> is_valid_hospital_url_simple(url),
     fast      |-> is_valid_hospital_url_fast(url),
     async     |-> is_hospital_url(url),
     india     |-> is_valid_hospital_url_comprehensive(url),
     lightning |-> is_valid_hospital_url_lightning(url)]

UrlInit ==
    /\ db = EmptyDb
    /\ scraper = "fast"
    /\ scraped_data = EmptyStaged
    /\ written = [k \in AllKeys |-> None]
    /\ pool = PoolIdle
    /\ match = MatchIdle
    /\ \E url \in UrlPool : disc = [pc |-> "link", url |-> url]
    /\ fetch = FetchIdle

\* The validators are applied to a link found on a page.
ValidateUrl ==
    /\ disc.pc = "link"
    /\ disc' = [pc |-> "validated", url |-> disc.url, valid |-> Verdicts(disc.url)]
    /\ UNCHANGED <<storeVars, pool, match, fetch>>

UrlNext == ValidateUrl

SpecUrl == UrlInit /\ [][UrlNext]_vars

\* C6: every detail-page validator rejects the bare listing URL
\* base_url + /hospitals/india and accepts
\* base_url + /hospitals/chennai/hospital-apollo.
C6_BareListingRejectedDetailAccepted ==
    disc.pc = "validated" =>
        /\ disc.url = BareListingIndia =>
              \A v \in DOMAIN disc.valid : ~disc.valid[v]
        /\ disc.url = DetailApollo =>
              \A v \in DOMAIN disc.valid : disc.valid[v]

\* C7: in is_valid_hospital_url_comprehensive and
\* is_valid_hospital_url_lightning a URL that matches a deny-list shape is
\* never accepted, even when it also matches an allow-list pattern.
C7_DenyListVetoes ==
    disc.pc = "validated" =>
        /\ SearchAny(IndiaExcludePatterns, disc.url, FALSE) => ~disc.valid.india
        /\ SearchAny(LightningExcludePatterns, disc.url, TRUE) => ~disc.valid.lightning

(***************************************************************************)
(* Discovery: the strategies of one scraper feed one set of URL strings.   *)
(***************************************************************************)
MaxLinks == 2       \* links taken from one page
MaxPages == 2       \* pages scanned by one strategy

PathApollo ==
    <<"/", "hospital", "s", "/", "chennai", "/", "hospital", "-", "apollo">>

PathClinic == <<"/", "hospital", "s", "/", "apollo", "-", "clinic">>

RefQuery == <<"?", "ref", "=", "2">>

PageQuery == <<"?", "page=", "2">>

\* href attributes and <loc> texts a page can carry
HrefPool ==
    UNION { {path, path \o <<"/">>, path \o RefQuery} : path \in {PathApollo, PathClinic} }
    \cup { PathApollo \o PageQuery,
           base_url \o PathApollo,
           base_url \o PathClinic,
           Tail(PathClinic),
           OtherOrigin \o PathApollo }

PageLinks == {links \in SUBSET HrefPool : Cardinality(links) <= MaxLinks}

DiscoveryScrapers == {"fast", "async", "india", "simple", "lightning"}

\* the strategies in the order the function runs them
Strategies(s) ==
    CASE s = "fast"  -> <<"pagination", "search">>
      [] s = "async" -> <<"pagination", "sitemap", "search">>
      [] s = "india" -> <<"selectors", "containers", "scripts">>
      [] s = "simple" -> <<"pagination", "location", "specialty">>
      [] s = "lightning" -> <<"first_page", "pagination">>

\* the validator each scraper's link extraction applies
IsDetailUrl(s, url) ==
    CASE s = "fast"  -> is_valid_hospital_url_fast(url)
      [] s = "async" -> is_hospital_url(url)
      [] s = "india" -> is_valid_hospital_url_comprehensive(url)
      [] s = "simple" -> is_valid_hospital_url_simple(url)
      [] s = "lightning" -> is_valid_hospital_url_lightning(url)

\* href -> full_url; <<>> when the link is skipped
FullUrl(s, strategy, href) ==
    CASE s = "async" /\ strategy = "sitemap" -> href            \* loc.text
      [] s = "async" /\ strategy # "sitemap" ->                 \* urljoin
            IF Head(href) = "https:" THEN href
            ELSE IF Head(href) = "/" THEN base_url \o href
            ELSE base_url \o <<"/">> \o href
      [] s = "india" /\ strategy = "containers" ->
            IF Head(href) = "/" THEN base_url \o href ELSE <<>>
      [] s = "india" /\ strategy = "scripts" ->
            \* re.findall(r'/hospitals?/[a-zA-Z0-9\-_/]+') stops at the "?"
            IF Head(href) = "/" /\ \A i \in 1..Len(href) : href[i] # "?"
            THEN base_url \o href ELSE <<>>
      [] OTHER ->
            IF Head(href) = "/" THEN base_url \o href
            ELSE IF Head(href) = "https:" THEN href
            ELSE <<>>

StrategyNames ==
    UNION {Range(Strategies(s)) : s \in DiscoveryScrapers}

\* what one href contributes: its full URL if the validator accepts it
HrefUrls ==
    [s \in DiscoveryScrapers |->
        [strategy \in StrategyNames |->
            [href \in HrefPool |->
                LET url == FullUrl(s, strategy, href) IN
                IF url # <<>> /\ IsDetailUrl(s, url) THEN {url} ELSE {}]]]

\* the valid full URLs one page (or one pass over a page) contributes
PageUrls(s, strategy, links) ==
    UNION {HrefUrls[s][strategy][href] : href \in links}

\* pages one strategy reads at most: one pass per loop of
\* extract_hospital_urls_comprehensive; range(1, 6); max_pages = 100, one
\* sitemap, 20 cities; max_pages = 500, 3 URLs for each of 215 locations and
\* 115 specialties; the first page and range(2, max_pages + 1) with
\* max_pages=5; 5 listing URLs and 3 URLs for each of 8 cities
SourcePages(s, strategy) ==
    CASE s = "india" -> 1
      [] s = "fast" /\ strategy = "pagination" -> 5
      [] s = "fast" /\ strategy = "search" -> 29
      [] s = "async" /\ strategy = "pagination" -> 100
      [] s = "async" /\ strategy = "sitemap" -> 1
      [] s = "async" /\ strategy = "search" -> 20
      [] s = "simple" /\ strategy = "pagination" -> 500
      [] s = "simple" /\ strategy = "location" -> 645
      [] s = "simple" /\ strategy = "specialty" -> 345
      [] s = "lightning" /\ strategy = "first_page" -> 1
      [] s = "lightning" /\ strategy = "pagination" -> 4

PageLimit(s, strategy) ==
    IF SourcePages(s, strategy) < MaxPages THEN SourcePages(s, strategy)
    ELSE MaxPages

\* a pagination loop breaks at the first page without hospital links
BreaksOnEmpty(strategy) == strategy = "pagination"

CurrentStrategy == Strategies(disc.scraper)[disc.strategy]

DiscInit ==
    /\ db = EmptyDb
    /\ scraper = "fast"
    /\ scraped_data = EmptyStaged
    /\ written = [k \in AllKeys |-> None]
    /\ pool = PoolIdle
    /\ match = MatchIdle
    /\ fetch = FetchIdle
    /\ \E s \in DiscoveryScrapers :
          disc = [pc |-> "scan", scraper |-> s, strategy |-> 1, page |-> 0,
                  hospital_urls |-> {}, failed |-> {}]

\* the loop of the current strategy ends: the next strategy starts, or the
\* function returns list(hospital_urls)
Advance(d) ==
    IF d.strategy = Len(Strategies(d.scraper))
    THEN [d EXCEPT !.pc = "done"]
    ELSE [d EXCEPT !.strategy = @ + 1, !.page = 0]

\* one page is fetched and its links are added to the set
ScanPage(links) ==
    /\ disc.pc = "scan"
    /\ disc.page < PageLimit(disc.scraper, CurrentStrategy)
    /\ LET found == PageUrls(disc.scraper, CurrentStrategy, links) IN
       disc' = IF found = {} /\ BreaksOnEmpty(CurrentStrategy)
               THEN Advance(disc)
               ELSE [disc EXCEPT !.hospital_urls = @ \cup found, !.page = @ + 1]
    /\ UNCHANGED <<storeVars, pool, match, fetch>>

\* the fetch functions the discovery of a scraper calls return None / False
\* on failure; extract_hospital_urls_comprehensive works on a page it was
\* given
Fetches(s) == s # "india"

FailureAbortsDiscovery(d) == [d EXCEPT !.pc = "done", !.hospital_urls = {}]

\* a fetch returned nothing: a pagination loop breaks, the other loops go on
\* to their next URL
OnFetchFailure(d) ==
    IF BreaksOnEmpty(Strategies(d.scraper)[d.strategy]) THEN Advance(d)
    ELSE [d EXCEPT !.page = @ + 1]

FetchFails ==
    /\ disc.pc = "scan"
    /\ Fetches(disc.scraper)
    /\ disc.page < PageLimit(disc.scraper, CurrentStrategy)
    /\ disc' = OnFetchFailure([disc EXCEPT !.failed = @ \cup {disc.strategy}])
    /\ UNCHANGED <<storeVars, pool, match, fetch>>

\* there is no next page, or the pages or URLs of the strategy are exhausted
EndStrategy ==
    /\ disc.pc = "scan"
    /\ disc' = Advance(disc)
    /\ UNCHANGED <<storeVars, pool, match, fetch>>

DiscNext ==
    \/ \E links \in PageLinks : ScanPage(links)
    \/ FetchFails
    \/ EndStrategy

SpecDisc == DiscInit /\ [][DiscNext]_vars

\* C8: the collection returned by discovery holds no two entries with the
\* same canonical form: scheme + host + path, without the trailing slash and
\* without the query string unless it carries a page parameter.
C8_OneEntryPerCanonicalUrl ==
    LET IndexOf(str, a) ==
            IF \E i \in 1..Len(str) : str[i] = a
            THEN CHOOSE i \in 1..Len(str) :
                    str[i] = a /\ \A j \in 1..(i - 1) : str[j] # a
            ELSE 0
        Canonical(url) ==
            LET q     == IndexOf(url, "?")
                path  == IF q = 0 THEN url ELSE SubSeq(url, 1, q - 1)
                query == IF q = 0 THEN <<>> ELSE SubSeq(url, q, Len(url))
                bare  == IF Len(path) > 0 /\ path[Len(path)] = "/"
                         THEN SubSeq(path, 1, Len(path) - 1) ELSE path
            IN  IF IndexOf(query, "page=") # 0 THEN bare \o query ELSE bare
    IN  disc.pc = "done" =>
            \A u, v \in disc.hospital_urls :
                Canonical(u) = Canonical(v) => u = v

(***************************************************************************)
(* Fetch: safe_get / safe_request.  One request is one call of             *)
(* session.get / session.request; its outcome is a response with a status  *)
(* code, or an exception raised anywhere in the try block (the read of the *)
(* body included).  What the session's transport does below that call is   *)
(* library code and is not modelled.                                       *)
(***************************************************************************)
fast_max_retries == 3           \* def safe_get(self, url, max_retries=3)
async_max_retries == 3          \* self.max_retries = 3
lightning_retry_total == 3      \* Retry(total=3, ...)
india_retry_total == 5          \* Retry(total=5, ...)

StatusCodes == {200, 204, 404, 429, 500}

Outcomes ==
    {[raised |-> FALSE, status |-> c] : c \in StatusCodes}
    \cup {[raised |-> TRUE, status |-> 0]}

FetchScrapers == {"fast", "async", "lightning", "india"}

\* random_delay(2, 5): the ends of the interval
RandomDelays == {2, 5}

\* for attempt in range(max_retries)
max_retries(s) == IF s = "fast" THEN fast_max_retries ELSE async_max_retries

ReturnsBodyOnAny2xx(o) == ~o.raised /\ o.status \in 200..299

\* if response.status_code == 200: return response.text
ReturnsBody(o) == ~o.raised /\ o.status = 200

\* elif response.status_code == 429
RateLimited(o) == ~o.raised /\ o.status = 429

\* wait_time = 2 ** attempt * 5
wait_time(attempt) == (2 ^ attempt) * 5

\* the for loop goes to its next iteration, or falls through to return None
NextAttempt(f) ==
    IF f.attempt + 1 < max_retries(f.scraper)
    THEN [f EXCEPT !.pc = "request", !.attempt = @ + 1]
    ELSE [f EXCEPT !.pc = "done", !.result = None]

\* one iteration of the loop of VaidamFastScraper.safe_get and of
\* VaidamComprehensiveScraper.safe_request, up to its sleep
LoopRequest(f, o, delay) ==
    LET g == [f EXCEPT !.requests = @ + 1, !.log = Append(@, o)] IN
    IF ReturnsBody(o) THEN [g EXCEPT !.pc = "done", !.result = "text"]
    ELSE IF RateLimited(o)
         THEN [g EXCEPT !.pc = "sleep", !.wait = wait_time(f.attempt)]
    ELSE IF ~o.raised THEN NextAttempt(g)
    ELSE IF f.attempt < max_retries(f.scraper) - 1
         THEN [g EXCEPT !.pc = "sleep",
                        !.wait = IF f.scraper = "fast" THEN delay
                                 ELSE 2 ^ f.attempt]
    ELSE NextAttempt(g)

\* time.sleep(2) in the lightning scraper, time.sleep(3) in the India one
FixedWait(s) == IF s = "lightning" THEN 2 ELSE 3

\* safe_get of the lightning and India scrapers, up to its sleep
SingleRequest(f, o) ==
    LET g == [f EXCEPT !.requests = @ + 1, !.log = Append(@, o)] IN
    IF ReturnsBody(o) THEN [g EXCEPT !.pc = "done", !.result = "text"]
    ELSE IF RateLimited(o)
         THEN [g EXCEPT !.pc = "sleep", !.wait = FixedWait(f.scraper)]
    ELSE [g EXCEPT !.pc = "done", !.result = None]

Loops(s) == s \in {"fast", "async"}

FetchStart(s) ==
    [pc |-> "request", scraper |-> s, attempt |-> 0, requests |-> 0,
     log |-> <<>>, wait |-> 0, result |-> None]

FetchInit ==
    /\ db = EmptyDb
    /\ scraper = "fast"
    /\ scraped_data = EmptyStaged
    /\ written = [k \in AllKeys |-> None]
    /\ pool = PoolIdle
    /\ match = MatchIdle
    /\ disc = DiscIdle
    /\ \E s \in FetchScrapers : fetch = FetchStart(s)

Request(o, delay) ==
    /\ fetch.pc = "request"
    /\ fetch' = IF Loops(fetch.scraper) THEN LoopRequest(fetch, o, delay)
                ELSE SingleRequest(fetch, o)
    /\ UNCHANGED <<storeVars, pool, match, disc>>

\* the sleep ends: the loop goes on; the single-attempt safe_get returns None
Sleep ==
    /\ fetch.pc = "sleep"
    /\ fetch' = IF Loops(fetch.scraper) THEN NextAttempt(fetch)
                ELSE [fetch EXCEPT !.pc = "done", !.result = None]
    /\ UNCHANGED <<storeVars, pool, match, disc>>

FetchNext ==
    \/ \E o \in Outcomes, delay \in RandomDelays : Request(o, delay)
    \/ Sleep

SpecFetch == FetchInit /\ [][FetchNext]_vars

Got200(o) == ~o.raised /\ o.status = 200

Got429(o) == ~o.raised /\ o.status = 429

LastOutcome == fetch.log[Len(fetch.log)]

AttemptBound(s) ==
    CASE s = "fast"      -> fast_max_retries
      [] s = "async"     -> async_max_retries
      [] s = "lightning" -> lightning_retry_total
      [] s = "india"     -> india_retry_total

BackoffBase(s) ==
    CASE s \in {"fast", "async"} -> 5
      [] s = "lightning" -> 2
      [] s = "india"     -> 3

C11_OtherStatusNotRetried ==
    (fetch.pc # "idle" /\ fetch.scraper \in {"fast", "async"}) =>
        \A i \in 1..Len(fetch.log) :
            (/\ ~fetch.log[i].raised
             /\ fetch.log[i].status \notin 200..299
             /\ fetch.log[i].status # 429) =>
                /\ i = Len(fetch.log)
                /\ fetch.pc = "done"
                /\ fetch.result = None

(***************************************************************************)
(* Page load of the async scraper: a listing page of                      *)
(* discover_hospital_urls or a detail page of scrape_hospital_details.     *)
(***************************************************************************)
PageCallers == {"discover_hospital_urls", "scrape_hospital_details"}

\* what scrape_with_playwright returns: the rendered DOM, an empty page, or
\* None after an exception
PlaywrightResults == {"dom", "", None}

\* if not content
Falsy(content) == content = None \/ content = ""

PageStart(caller) ==
    [pc |-> "playwright", scraper |-> "async", attempt |-> 0, requests |-> 0,
     log |-> <<>>, wait |-> 0, result |-> None,
     caller |-> caller, calls |-> <<>>, content |-> None]

PageInit ==
    /\ db = EmptyDb
    /\ scraper = "fast"
    /\ scraped_data = EmptyStaged
    /\ written = [k \in AllKeys |-> None]
    /\ pool = PoolIdle
    /\ match = MatchIdle
    /\ disc = DiscIdle
    /\ \E caller \in PageCallers : fetch = PageStart(caller)

\* content = await self.scrape_with_playwright(url)
ScrapeWithPlaywright(rendered) ==
    /\ fetch.pc = "playwright"
    /\ fetch' = [fetch EXCEPT !.calls = Append(@, "scrape_with_playwright"),
                              !.content = rendered,
                              !.pc = IF Falsy(rendered) THEN "fallback" ELSE "parse"]
    /\ UNCHANGED <<storeVars, pool, match, disc>>

\* if not content: content = await self.safe_request(url)
CallSafeRequest ==
    /\ fetch.pc = "fallback"
    /\ fetch' = [fetch EXCEPT !.calls = Append(@, "safe_request"), !.pc = "request"]
    /\ UNCHANGED <<storeVars, pool, match, disc>>

\* safe_request has returned; if not content: the page is given up
SafeRequestReturns ==
    /\ fetch.pc = "done"
    /\ fetch' = [fetch EXCEPT !.content = fetch.result,
                              !.pc = IF Falsy(fetch.result) THEN "failed" ELSE "parse"]
    /\ UNCHANGED <<storeVars, pool, match, disc>>

PageNext ==
    \/ \E rendered \in PlaywrightResults : ScrapeWithPlaywright(rendered)
    \/ CallSafeRequest
    \/ \E o \in Outcomes, delay \in RandomDelays : Request(o, delay)
    \/ Sleep
    \/ SafeRequestReturns

SpecPage == PageInit /\ [][PageNext]_vars

\* C12: for every URL the async scraper fetches, scrape_with_playwright is
\* attempted only after safe_request for that URL was exhausted without
\* success.
C12_RenderedOnlyAfterPlain ==
    (fetch.pc # "idle" /\ "calls" \in DOMAIN fetch) =>
        \A i \in 1..Len(fetch.calls) :
            fetch.calls[i] = "scrape_with_playwright" =>
                /\ \E j \in 1..(i - 1) : fetch.calls[j] = "safe_request"
                /\ fetch.result = None

(***************************************************************************)
(* Pagination walks: scrape_hospitals_pagination (simple scraper), the     *)
(* pagination loop of discover_hospital_urls (async scraper) and           *)
(* scrape_hospital_listing_comprehensive (India scraper).                  *)
(***************************************************************************)
MaxWalk == 3        \* pages a modelled walk may request

WalkScrapers == {"simple", "async", "india"}

\* max_pages = 500, max_pages = 100, max_pages=50
max_pages(s) ==
    CASE s = "simple" -> 500
      [] s = "async"  -> 100
      [] s = "india"  -> 50

\* the detail URLs the link extraction of a page can return
WalkUrls ==
    {base_url \o PathApollo, base_url \o PathClinic, base_url \o PathApollo \o <<"/">>}

\* a listing page as the walk sees it: fetched or not, its valid links, and
\* whether it carries a next-page link
ListingPages ==
    {[ok |-> TRUE, urls |-> u, has_next |-> n] : u \in SUBSET WalkUrls, n \in BOOLEAN}
    \cup {[ok |-> FALSE, urls |-> {}, has_next |-> FALSE]}

WalkInit ==
    /\ db = EmptyDb
    /\ scraper = "fast"
    /\ scraped_data = EmptyStaged
    /\ written = [k \in AllKeys |-> None]
    /\ pool = PoolIdle
    /\ match = MatchIdle
    /\ fetch = FetchIdle
    /\ \E s \in WalkScrapers :
          disc = [pc |-> "walk", scraper |-> s, page |-> 1,
                  hospital_urls |-> {}, history |-> <<>>]

\* whether the loop goes on to the next page after this one
WalkContinues(s, page, p) ==
    CASE s = "simple" -> p.ok /\ p.urls # {} /\ p.has_next
      [] s = "async"  -> p.ok /\ p.urls # {} /\ p.has_next
      [] s = "india"  -> IF page = 1 THEN TRUE      \* the first page never breaks
                         ELSE p.ok /\ p.urls # {}

\* one page of the walk: request, extract, extend, decide
RequestPage(p) ==
    /\ disc.pc = "walk"
    /\ disc.page <= max_pages(disc.scraper)
    /\ disc.page <= MaxWalk
    /\ disc' = [disc EXCEPT
                  !.history = Append(@, p),
                  !.hospital_urls = @ \cup p.urls,
                  !.page = @ + 1,
                  !.pc = IF WalkContinues(disc.scraper, disc.page, p)
                         THEN "walk" ELSE "done"]
    /\ UNCHANGED <<storeVars, pool, match, fetch>>

\* the page index passes the limit: the walk returns
WalkEnds ==
    /\ disc.pc = "walk"
    /\ disc.page > max_pages(disc.scraper) \/ disc.page > MaxWalk
    /\ disc' = [disc EXCEPT !.pc = "done"]
    /\ UNCHANGED <<storeVars, pool, match, fetch>>

WalkNext ==
    \/ \E p \in ListingPages : RequestPage(p)
    \/ WalkEnds

SpecWalk == WalkInit /\ [][WalkNext]_vars

\* C13: a pagination walk stops at the first page that yields zero new
\* links or carries no next-page signal: every page followed by a later
\* request brought a link not collected before and a next-page signal.
C13_WalkStopsWithoutNewLinks ==
    (disc.pc \in {"walk", "done"} /\ "history" \in DOMAIN disc) =>
        \A i \in 1..(Len(disc.history) - 1) :
            /\ disc.history[i].has_next
            /\ \E u \in disc.history[i].urls :
                  \A j \in 1..(i - 1) : u \notin disc.history[j].urls

\* C14: a failed fetch during discovery abandons only its own branch: the
\* URLs collected so far are kept, the remaining strategies still run, and
\* the discovery ends only after its last strategy.
C14_FailedFetchAbandonsOnlyItsBranch ==
    [][("failed" \in DOMAIN disc /\ "failed" \in DOMAIN disc') =>
          /\ disc.hospital_urls \subseteq disc'.hospital_urls
          /\ disc'.failed # disc.failed =>
                /\ disc'.hospital_urls = disc.hospital_urls
                /\ disc'.strategy \in {disc.strategy, disc.strategy + 1}
          /\ disc'.pc = "done" =>
                disc.strategy = Len(Strategies(disc.scraper))]_vars

\* the first strategy lost a fetch, a later one still delivered URLs
C14_Witness ==
    /\ "failed" \in DOMAIN disc
    /\ disc.pc = "done"
    /\ 1 \in disc.failed
    /\ disc.hospital_urls # {}

(***************************************************************************)
(* Run loops: run_complete_scrape (fast), run_lightning_scrape,            *)
(* run_comprehensive_india_scrape and run_comprehensive_scrape (async).    *)
(* The discovered URLs are distinct, so the records of one run are counted *)
(* instead of listed: staged is the length of the in-memory list, unsaved  *)
(* how many of its records no write has carried to the store yet, stored   *)
(* how many records of the run are in the store, lost how many were        *)
(* cleared from memory without having been written.  The tasks of the      *)
(* async scraper are taken in the order in which they finish.              *)
(***************************************************************************)
MaxOver == 1        \* URLs of a modelled run beyond the first batch boundary

RunScrapers == {"fast", "lightning", "india", "async"}

\* if i % 10 == 0, if i % 50 == 0, batch_size = 20
BatchSize(s) ==
    CASE s = "fast" -> 10
      [] s \in {"lightning", "india"} -> 50
      [] s = "async" -> batch_size

\* the run loops that save at a batch boundary
SavesPeriodically(s) == s # "async"

\* the run loops that empty scraped_data after the periodic save
ClearsAfterSave(s) == s \in {"lightning", "india"}

\* the resources a run opens
Resources(s) ==
    IF s = "async" THEN {"playwright", "browser", "session", "mongo_client"}
    ELSE {"session", "mongo_client"}

RunStart(s) ==
    [pc |-> "init", scraper |-> s, n |-> 0, i |-> 0,
     staged |-> 0, unsaved |-> 0, stored |-> 0, lost |-> 0, writes |-> 0,
     exported |-> 0, last |-> "none", init_failed |-> FALSE, write_failed |-> FALSE,
     interrupted |-> FALSE,
     res |-> [r \in Resources(s) |-> "unset"]]

RunInit ==
    /\ db = EmptyDb
    /\ scraper = "fast"
    /\ scraped_data = EmptyStaged
    /\ written = [k \in AllKeys |-> None]
    /\ match = MatchIdle
    /\ disc = DiscIdle
    /\ fetch = FetchIdle
    /\ \E s \in RunScrapers : pool = RunStart(s)

\* the order in which the initialisation opens the resources
InitOrder(s) ==
    IF s = "async" THEN <<"playwright", "browser", "session", "mongo_client">>
    ELSE <<"session", "mongo_client">>

\* the initialisation opens the first k resources and then raises (k less
\* than all), or opens all; init_mongodb / init_mongo can also raise after
\* the client was created (the ping fails)
Initialise(k, ping_fails) ==
    /\ pool.pc = "init"
    /\ k <= Len(InitOrder(pool.scraper))
    /\ ping_fails => k = Len(InitOrder(pool.scraper))
    /\ LET order == InitOrder(pool.scraper)
           fails == k < Len(order) \/ ping_fails
       IN  pool' = [pool EXCEPT
                      !.res = [r \in Resources(pool.scraper) |->
                                  IF \E j \in 1..k : order[j] = r
                                  THEN "open" ELSE "unset"],
                      !.init_failed = fails,
                      !.pc = IF fails THEN "cleanup" ELSE "discover"]
    /\ UNCHANGED <<storeVars, match, disc, fetch>>

\* The lengths of hospital_urls explored: none, a few, and those around the
\* first batch boundary.
UrlCounts(s) == (0..2) \cup ((BatchSize(s) - 1)..(BatchSize(s) + MaxOver))

\* hospital_urls = self.discover_...(); if not hospital_urls: return
Discover(n) ==
    /\ pool.pc = "discover"
    /\ pool' = [pool EXCEPT
                  !.n = n,
                  !.pc = IF n > 0 THEN "loop"
                         ELSE IF pool.scraper = "async" THEN "final_save"
                         ELSE "cleanup"]
    /\ UNCHANGED <<storeVars, match, disc, fetch>>

SaveOutcomes == {"ok", "error"}

\* save_to_mongodb*: nothing is written when nothing is staged; a write that
\* raises is caught and logged inside the function
Save(r, outcome) ==
    IF r.staged = 0 THEN r
    ELSE IF outcome = "ok"
         THEN [r EXCEPT !.writes = @ + 1, !.stored = @ + r.unsaved, !.unsaved = 0]
    ELSE [r EXCEPT !.writes = @ + 1, !.write_failed = TRUE]

\* self.scraped_data['hospitals'] = []; self.scraped_data['doctors'] = []
Clear(r) == [r EXCEPT !.staged = 0, !.lost = @ + r.unsaved, !.unsaved = 0]

\* the end of an iteration that raised nothing: the periodic save
AtBoundary(r, outcome) ==
    IF SavesPeriodically(r.scraper) /\ r.i % BatchSize(r.scraper) = 0
    THEN IF ClearsAfterSave(r.scraper) THEN Clear(Save(r, outcome))
         ELSE Save(r, outcome)
    ELSE r

\* for i, url in enumerate(hospital_urls, 1): the loop goes on or is over
NextUrl(r) == [r EXCEPT !.pc = IF r.i < r.n THEN "loop" ELSE "final_save"]

ExceptionAbortsLoop(r) == [r EXCEPT !.pc = "cleanup"]

\* except Exception as e: logger.error(...); continue   (for the async
\* scraper: gather(*tasks, return_exceptions=True))
OnUrlException(r) == NextUrl(r)

UrlOutcomes ==
    {"hospital", "none", "raises", "raises_after_hospital", "interrupt"}

Stages(outcome) == outcome \in {"hospital", "raises_after_hospital"}

\* one iteration of the run loop (one task of the async scraper)
ProcessUrl(outcome, save) ==
    /\ pool.pc = "loop"
    /\ pool.i < pool.n
    /\ LET r == [pool EXCEPT !.i = @ + 1, !.last = outcome,
                             !.staged = IF Stages(outcome) THEN @ + 1 ELSE @,
                             !.unsaved = IF Stages(outcome) THEN @ + 1 ELSE @]
       IN  pool' =
             CASE outcome \in {"hospital", "none"} -> NextUrl(AtBoundary(r, save))
               [] outcome \in {"raises", "raises_after_hospital"} -> OnUrlException(r)
               \* KeyboardInterrupt is no Exception: only finally runs
               [] outcome = "interrupt" ->
                     [pool EXCEPT !.last = outcome, !.interrupted = TRUE,
                                  !.pc = "cleanup"]
    /\ UNCHANGED <<storeVars, match, disc, fetch>>

\* export_to_csv*: the rows of the file are the records of scraped_data
Export(r) == [r EXCEPT !.exported = r.staged]

\* the save after the loop, and the export of scraped_data to CSV
FinalSave(save) ==
    /\ pool.pc = "final_save"
    /\ pool' = [Export(Save(pool, save)) EXCEPT !.pc = "cleanup"]
    /\ UNCHANGED <<storeVars, match, disc, fetch>>

\* cleanup(): if self.session: close; if self.browser: browser.close() and
\* playwright.stop(); if self.mongo_client: close
Closed(res) ==
    [r \in DOMAIN res |->
        IF res[r] # "open" THEN res[r]
        ELSE IF r = "playwright"
             THEN (IF res["browser"] = "open" THEN "closed" ELSE "open")
        ELSE "closed"]

\* finally: self.cleanup()
Cleanup ==
    /\ pool.pc = "cleanup"
    /\ pool' = [pool EXCEPT !.res = Closed(@), !.pc = "ended"]
    /\ UNCHANGED <<storeVars, match, disc, fetch>>

RunNext ==
    \/ \E k \in 0..4, ping_fails \in BOOLEAN : Initialise(k, ping_fails)
    \/ \E n \in UrlCounts(pool.scraper) : Discover(n)
    \/ \E outcome \in UrlOutcomes, save \in SaveOutcomes : ProcessUrl(outcome, save)
    \/ \E save \in SaveOutcomes : FinalSave(save)
    \/ Cleanup

SpecRun == RunInit /\ [][RunNext]_vars

\* C15: an exception raised while processing the i-th URL is isolated: the
\* loop goes on with URL i+1, what was staged stays staged, and a run that
\* is neither interrupted nor hit by a store failure ends with all n URLs
\* processed and every staged record saved.
C15_UrlFailureIsolated ==
    /\ [][(pool.pc = "loop" /\ pool'.i = pool.i + 1
           /\ pool'.last \in {"raises", "raises_after_hospital"}) =>
             /\ pool'.pc = IF pool'.i < pool.n THEN "loop" ELSE "final_save"
             /\ pool'.staged >= pool.staged
             /\ pool'.unsaved >= pool.unsaved
             /\ pool'.lost = pool.lost]_vars
    /\ []((/\ pool.pc = "ended"
           /\ pool.n > 0
           /\ ~pool.init_failed /\ ~pool.interrupted /\ ~pool.write_failed) =>
             /\ pool.i = pool.n
             /\ pool.unsaved = 0
             /\ pool.lost = 0)

\* the last URL raised after its hospital was staged, and the run still
\* ended with every URL processed and every staged record in the store
C15_Witness ==
    /\ pool.pc = "ended"
    /\ pool.last = "raises_after_hospital"
    /\ pool.i = pool.n
    /\ pool.n > 1
    /\ pool.stored > 1
    /\ pool.unsaved = 0

\* C16: a store write that raises is fatal for the run: after it no further
\* URL is processed and no further write is issued, and what was flushed
\* before stays in the store.
C16_PersistenceFailureFatal ==
    [][pool.write_failed =>
          /\ pool'.i = pool.i
          /\ pool'.writes = pool.writes
          /\ pool'.stored >= pool.stored]_vars

\* C17: once the i-th URL has been processed with i a multiple of the batch
\* size, every record staged so far has been written to the store.
C17_FlushedAtBatchBoundary ==
    (pool.pc \in {"loop", "final_save"} /\ pool.i > 0
     /\ pool.i % BatchSize(pool.scraper) = 0) =>
        /\ pool.unsaved = 0
        /\ pool.lost = 0

\* C18: when a stop signal arrives while the run loop processes URLs, every
\* record staged so far is flushed to the store before the run terminates.
C18_InterruptFlushes ==
    (pool.pc = "ended" /\ pool.interrupted) => pool.unsaved = 0

\* C19: on every exit path of a run, every resource the run opened has been
\* closed when the run ends.
C19_ResourcesReleased ==
    pool.pc = "ended" => \A r \in DOMAIN pool.res : pool.res[r] # "open"

\* C27: at the end of a run that completes normally the CSV export holds
\* every record staged during the run, for any number of processed URLs.
C27_ExportMirrorsRun ==
    (/\ pool.pc = "ended"
     /\ pool.n > 0
     /\ ~pool.init_failed /\ ~pool.interrupted /\ ~pool.write_failed) =>
        pool.exported = pool.stored + pool.unsaved + pool.lost

\* C28: in the lightning and the India run a record leaves the in-memory
\* buffer only after a save wrote it to the store: no record is ever cleared
\* unwritten.
C28_ClearedOnlyWhenWritten ==
    pool.scraper \in {"lightning", "india"} => pool.lost = 0

(***************************************************************************)
(* Doctor names: extract_doctors_from_soup of the simple scraper and the   *)
(* doctor sheet import (transform_doctor_data, import_doctors_to_mongodb). *)
(***************************************************************************)
MaxText  == 6       \* characters of one page element's text
MaxCell  == 3       \* characters of one "Doctor Name" cell
MaxNames == 2       \* doctor records staged plus documents inserted

\* Characters of element.get_text(): letters of both cases, the dot and
\* white space.
TextChars == {"D", "r", ".", " "}

ElementTexts == SeqsUpTo(TextChars, MaxText)

\* [a-z\s\.] under re.IGNORECASE
NameChar(ch) == IsSpace(ch) \/ ch = "." \/ ch \in Range(LowerChars \o UpperChars)

\* The length of the longest prefix of str that \s* matches.
RECURSIVE SpaceRun(_)
SpaceRun(str) ==
    IF Len(str) > 0 /\ IsSpace(str[1]) THEN 1 + SpaceRun(Tail(str)) ELSE 0

\* The length of the longest prefix of str that [a-z\s\.]* matches.
RECURSIVE NameRun(_)
NameRun(str) ==
    IF Len(str) > 0 /\ NameChar(str[1]) THEN 1 + NameRun(Tail(str)) ELSE 0

NoMatch == [ok |-> FALSE]

\* r'dr\.?\s+([a-z\s\.]{3,50})' matched at the start of str: \s+ is greedy
\* and gives characters back until the group finds its three.
NameMatchAt(str) ==
    IF Len(str) < 2 \/ Lower(SubSeq(str, 1, 2)) # <<"d", "r">> THEN NoMatch
    ELSE LET dot   == IF Len(str) >= 3 /\ str[3] = "." THEN 1 ELSE 0
             rest  == SubSeq(str, 3 + dot, Len(str))
             taken == {k \in 1..SpaceRun(rest) :
                          NameRun(SubSeq(rest, k + 1, Len(rest))) >= 3}
         IN  IF taken = {} THEN NoMatch
             ELSE LET k     == CHOOSE x \in taken : \A y \in taken : y <= x
                      after == SubSeq(rest, k + 1, Len(rest))
                      n     == IF NameRun(after) > 50 THEN 50 ELSE NameRun(after)
                  IN  [ok |-> TRUE, group |-> SubSeq(after, 1, n)]

\* re.search(r'dr\.?\s+([a-z\s\.]{3,50})', text, re.IGNORECASE)
RECURSIVE NameSearch(_)
NameSearch(text) ==
    LET here == NameMatchAt(text) IN
    IF here.ok \/ Len(text) = 0 THEN here ELSE NameSearch(Tail(text))

\* if doctor_data and doctor_data['name']
KeepsDoctor(doctor_data) == doctor_data.ok /\ doctor_data.name # <<>>

\* extract_single_doctor_info: None without a match, otherwise the dict with
\* name = name_match.group(1).strip()
extract_single_doctor_info(text) ==
    LET name_match == NameSearch(text) IN
    IF ~name_match.ok THEN NoMatch
    ELSE [ok |-> TRUE, name |-> Strip(name_match.group), hospital_name |-> "h1"]

\* What extract_single_doctor_info returns over all element texts.
ExtractedDicts == {extract_single_doctor_info(text) : text \in ElementTexts}

\* A "Doctor Name" cell of the sheet: a string, or NaN for a missing cell.
CellChars == {"a", " "}

NaN == [isna |-> TRUE]

StrCell(str) == [isna |-> FALSE, str |-> str]

NameCells == {NaN} \cup {StrCell(str) : str \in SeqsUpTo(CellChars, MaxCell)}

\* str(cell)
Str(cell) == IF cell.isna THEN <<"n", "a", "n">> ELSE cell.str

\* transform_doctor_data: 'name': str(row['Doctor Name']).strip()
transform_doctor_data(cell) ==
    [name |-> Strip(Str(cell)), hospital_name_nested |-> "h1"]

NamesInit ==
    /\ db = EmptyDb
    /\ scraper = "simple"
    /\ scraped_data = EmptyStaged
    /\ written = <<>>
    /\ OthersIdle

\* One element of the loop of extract_doctors_from_soup; the doctors reach
\* self.scraped_data['doctors'] through scrape_doctors_for_hospital.
ExtractDoctor(doctor_data) ==
    /\ Len(scraped_data.doctors) + Len(db.doctors) < MaxNames
    /\ scraped_data' =
          IF KeepsDoctor(doctor_data)
          THEN [scraped_data EXCEPT !.doctors =
                   Append(@, [name |-> doctor_data.name,
                              hospital_name |-> doctor_data.hospital_name])]
          ELSE scraped_data
    /\ UNCHANGED <<db, scraper, written, pool, match, disc, fetch>>

\* One row of the loop of import_doctors_to_mongodb: transform, skip a
\* duplicate (name, hospital.name), insert_one; an exception skips the row.
\* written records the cell each inserted document came from.
ImportDoctorRow(cell, raises) ==
    /\ Len(scraped_data.doctors) + Len(db.doctors) < MaxNames
    /\ LET doctor_doc == transform_doctor_data(cell)
           existing   == FirstMatch(db.doctors,
                             [name |-> doctor_doc.name,
                              hospital_name_nested |-> doctor_doc.hospital_name_nested])
       IN  IF raises \/ existing # 0
           THEN UNCHANGED <<db, written>>
           ELSE /\ db' = [db EXCEPT !.doctors = Append(@, doctor_doc)]
                /\ written' = Append(written, cell)
    /\ UNCHANGED <<scraper, scraped_data, pool, match, disc, fetch>>

NamesNext ==
    \/ \E doctor_data \in ExtractedDicts : ExtractDoctor(doctor_data)
    \/ \E cell \in NameCells, raises \in BOOLEAN : ImportDoctorRow(cell, raises)

SpecNames == NamesInit /\ [][NamesNext]_vars

\* C20: no doctor record without a resolvable name is staged or inserted:
\* every staged doctor and every inserted doctor document has a non-empty
\* name, and no document comes from a row whose name cell is missing.
C20_NoNamelessDoctor ==
    /\ \A i \in 1..Len(scraped_data.doctors) : scraped_data.doctors[i].name # <<>>
    /\ \A i \in 1..Len(db.doctors) : db.doctors[i].name # <<>>
    /\ \A i \in 1..Len(written) : ~written[i].isna

\* The extractor's half of C20, which the code keeps: a staged doctor has a
\* non-empty name.
StagedDoctorsNamed ==
    \A i \in 1..Len(scraped_data.doctors) : scraped_data.doctors[i].name # <<>>

(***************************************************************************)
(* Numeric fields of a hospital page: rating, established year, beds.      *)
(* A page is given by what re.search finds for each pattern of a list, in  *)
(* list order: <<>> for no match, <<v>> for the number in group(1).        *)
(* Ratings are counted in tenths.                                          *)
(***************************************************************************)
FieldScrapers == {"fast", "lightning", "india"}

Fields == {"rating", "established", "beds"}

\* the number of patterns (selectors) tried for a field
PatternCount(s, field) ==
    CASE s = "india" /\ field = "rating"          -> 4
      [] s = "india" /\ field = "established"     -> 4
      [] s = "india" /\ field = "beds"            -> 3
      [] s = "lightning"                          -> 3
      [] s = "fast" /\ field = "beds"             -> 1
      [] s = "fast" /\ field # "beds"             -> 3

\* Numbers a page can show for a field.
PageValues(field) ==
    CASE field = "rating"      -> {0, 43, 50, 51, 95}
      [] field = "established" -> {1799, 1800, 1899, 1900, 2025, 9999}
      [] field = "beds"        -> {0, 1, 9, 10, 5000, 5001}

MatchResults(field) == {<<>>} \cup {<<v>> : v \in PageValues(field)}

PageMatches(s, field) == [1..PatternCount(s, field) -> MatchResults(field)]

\* for pattern in patterns: if match: return value
RECURSIVE FirstMatched(_)
FirstMatched(ms) ==
    IF ms = <<>> THEN 0
    ELSE IF Head(ms) # <<>> THEN Head(ms)[1]
    ELSE FirstMatched(Tail(ms))

\* for pattern in patterns: if match: if lo <= value <= hi: return value
RECURSIVE FirstInRange(_, _, _)
FirstInRange(ms, lo, hi) ==
    IF ms = <<>> THEN 0
    ELSE IF Head(ms) # <<>> /\ lo <= Head(ms)[1] /\ Head(ms)[1] <= hi THEN Head(ms)[1]
    ELSE FirstInRange(Tail(ms), lo, hi)

\* extract_rating_comprehensive / extract_rating_lightning /
\* extract_hospital_rating
extract_rating(s, ms) ==
    IF s = "india" THEN FirstInRange(ms, 0, 50) ELSE FirstMatched(ms)

\* extract_established_comprehensive / extract_established_year_lightning /
\* extract_hospital_established (which returns the digits as a string, ""
\* without a match)
extract_established(s, ms) ==
    CASE s = "india"     -> FirstInRange(ms, 1800, 2025)
      [] s = "lightning" -> FirstInRange(ms, 1900, 2025)
      [] s = "fast"      -> FirstMatched(ms)

\* extract_beds_comprehensive / extract_bed_count_lightning /
\* extract_hospital_beds
extract_beds(s, ms) ==
    IF s = "india" THEN FirstInRange(ms, 10, 5000) ELSE FirstMatched(ms)

ExtractValue(s, field, ms) ==
    CASE field = "rating"      -> extract_rating(s, ms)
      [] field = "established" -> extract_established(s, ms)
      [] field = "beds"        -> extract_beds(s, ms)

\* The hospital record of scrape_hospital_details*, before its fields are
\* extracted.
FieldsInit ==
    /\ db = EmptyDb
    /\ scraped_data = EmptyStaged
    /\ written = [k \in AllKeys |-> None]
    /\ pool = PoolIdle
    /\ disc = DiscIdle
    /\ fetch = FetchIdle
    /\ \E s \in FieldScrapers :
        /\ scraper = s
        /\ match = [pc |-> "page", todo |-> Fields,
                    rating |-> 0, established |-> 0, beds |-> 0]

\* One extractor call of scrape_hospital_details* on the page.
ExtractField(field, ms) ==
    /\ match.pc = "page"
    /\ field \in match.todo
    /\ match' = [match EXCEPT ![field] = ExtractValue(scraper, field, ms),
                              !.todo = @ \ {field}]
    /\ UNCHANGED <<storeVars, pool, disc, fetch>>

\* The record is complete and is returned to the run loop.
ReturnRecord ==
    /\ match.pc = "page"
    /\ match.todo = {}
    /\ match' = [match EXCEPT !.pc = "record"]
    /\ UNCHANGED <<storeVars, pool, disc, fetch>>

FieldsNext ==
    \/ \E field \in Fields :
        \E ms \in PageMatches(scraper, field) : ExtractField(field, ms)
    \/ ReturnRecord

SpecFields == FieldsInit /\ [][FieldsNext]_vars

\* C21: every hospital record a scraper produces has a rating in [0, 5], an
\* established year that is absent (zero) or in [1800, current year], and a
\* bed count that is zero or in [1, 5000].
C21_NumericFieldsInRange ==
    LET current_year == 2026 IN
    match.pc = "record" =>
        /\ 0 <= match.rating /\ match.rating <= 50
        /\ match.established = 0
              \/ (1800 <= match.established /\ match.established <= current_year)
        /\ match.beds = 0 \/ (1 <= match.beds /\ match.beds <= 5000)

\* The part of C21 the India scraper keeps.
IndiaFieldsInRange ==
    (scraper = "india" /\ match.pc = "record") =>
        /\ match.rating <= 50
        /\ match.established = 0
              \/ (1800 <= match.established /\ match.established <= 2025)
        /\ match.beds = 0 \/ (10 <= match.beds /\ match.beds <= 5000)

(***************************************************************************)
(* parse_established_year of analyze_and_import_hospitals.py and of        *)
(* enhanced_hospital_import_final.py. A result is <<>> for None and <<n>>  *)
(* for the integer n.                                                      *)
(***************************************************************************)
MaxYearStr == 4     \* characters of a cell that does not follow the label form

YearParsers == {"analyze", "enhanced"}

Digits == <<"0", "1", "2", "3", "4", "5", "6", "7", "8", "9">>

IsDigit(ch) == \E i \in 1..Len(Digits) : Digits[i] = ch

\* int(ch) for one digit
DigitValue(ch) == (CHOOSE i \in 1..Len(Digits) : Digits[i] = ch) - 1

\* int(str) for a string of digits
RECURSIVE IntOf(_)
IntOf(str) ==
    IF str = <<>> THEN 0
    ELSE 10 * IntOf(SubSeq(str, 1, Len(str) - 1)) + DigitValue(str[Len(str)])

EstablishedIn == <<"E", "s", "t", "a", "b", "l", "i", "s", "h", "e", "d", " ",
                   "i", "n", ":">>

\* str.upper()
Upper(str) ==
    [i \in 1..Len(str) |->
        IF \E j \in 1..Len(LowerChars) : LowerChars[j] = str[i]
        THEN UpperChars[CHOOSE j \in 1..Len(LowerChars) : LowerChars[j] = str[i]]
        ELSE str[i]]

\* re.sub(r'^Established in:\s*', '', str), with or without re.IGNORECASE
RemoveLabel(str, ignorecase) ==
    LET n    == Len(EstablishedIn)
        head == SubSeq(str, 1, n)
    IN  IF Len(str) >= n /\ (head = EstablishedIn
                             \/ (ignorecase /\ Lower(head) = Lower(EstablishedIn)))
        THEN LStrip(SubSeq(str, n + 1, Len(str)))
        ELSE str

\* re.match(r'(\d{4})', str): the digits must open the string
FourDigitsAtStart(str) ==
    IF Len(str) >= 4 /\ \A i \in 1..4 : IsDigit(str[i])
    THEN <<SubSeq(str, 1, 4)>> ELSE <<>>

\* re.search(r'(\d{4})', str): group(1) of the leftmost match, <<>> for None
RECURSIVE FourDigits(_)
FourDigits(str) ==
    IF Len(str) < 4 THEN <<>>
    ELSE IF \A i \in 1..4 : IsDigit(str[i]) THEN <<SubSeq(str, 1, 4)>>
    ELSE FourDigits(Tail(str))

\* the value returned when there is no year
NoYear(impl) == IF impl = "analyze" THEN <<>> ELSE <<0>>

parse_established_year(impl, year_str) ==
    IF year_str.isna \/ (impl = "analyze" /\ Str(year_str) = <<"n", "a", "n">>)
    THEN NoYear(impl)
    ELSE LET clean_year ==
                 IF impl = "analyze"
                 THEN Strip(RemoveLabel(Str(year_str), TRUE))
                 ELSE RemoveLabel(Strip(Str(year_str)), FALSE)
             year_match == FourDigits(clean_year)
         IN  IF year_match # <<>> THEN <<IntOf(year_match[1])>> ELSE NoYear(impl)

\* Cells of the "Established" column: the label in three spellings followed
\* by a 4-digit number, short free strings, and the missing cell.
YearDigits == {"0", "1", "9"}

FourDigitNumbers ==
    {y \in [1..4 -> YearDigits] : y[1] # "0"}

Labels == {EstablishedIn, Lower(EstablishedIn), Upper(EstablishedIn)}

LabelledYears == {l \o <<" ">> \o y : l \in Labels, y \in FourDigitNumbers}

YearCells ==
    {NaN} \cup {StrCell(str) : str \in LabelledYears}
          \cup {StrCell(str) : str \in SeqsUpTo({"1", "9", "x", " "}, MaxYearStr)}

YearInit ==
    /\ db = EmptyDb
    /\ scraper = "import"
    /\ scraped_data = EmptyStaged
    /\ written = [k \in AllKeys |-> None]
    /\ pool = PoolIdle
    /\ disc = DiscIdle
    /\ fetch = FetchIdle
    /\ \E impl \in YearParsers, year_str \in YearCells :
        match = [pc |-> "cell", impl |-> impl, year_str |-> year_str]

\* transform_hospital_data calls parse_established_year on the cell.
ParseYear ==
    /\ match.pc = "cell"
    /\ match' = [pc |-> "parsed", impl |-> match.impl, year_str |-> match.year_str,
                 result |-> parse_established_year(match.impl, match.year_str)]
    /\ UNCHANGED <<storeVars, pool, disc, fetch>>

YearNext == ParseYear

SpecYear == YearInit /\ [][YearNext]_vars

\* C22: for a cell "Established in: Y" (the label in any case) with Y a
\* 4-digit number each parse_established_year returns the integer Y, and for
\* a cell without four digits in a row it returns its absent value.
C22_LabelledYearParsed ==
    match.pc = "parsed" =>
        /\ \A l \in Labels, y \in FourDigitNumbers :
              (~match.year_str.isna /\ match.year_str.str = l \o <<" ">> \o y)
                  => match.result = <<IntOf(y)>>
        /\ (match.year_str.isna
              \/ ~\E i \in 1..(Len(match.year_str.str) - 3) :
                     \A j \in 0..3 : IsDigit(match.year_str.str[i + j]))
              => match.result = NoYear(match.impl)

\* A lower-case label, which the enhanced importer does not remove, and the
\* year 1990 returned all the same.
C22_Witness ==
    /\ match.pc = "parsed"
    /\ match.impl = "enhanced"
    /\ ~match.year_str.isna
    /\ match.year_str.str = Lower(EstablishedIn) \o <<" ", "1", "9", "9", "0">>
    /\ match.result = <<1990>>

(***************************************************************************)
(* parse_rating of analyze_and_import_hospitals.py, enhanced_doctors_      *)
(* import.py and enhanced_hospital_import_final.py.                        *)
(***************************************************************************)
MaxRatingDigits == 2    \* digits of each part of a rating and of the count
MaxRatingStr    == 3    \* characters of a cell that does not follow the form

RatingParsers == {"analyze", "doctors", "enhanced"}

RECURSIVE DigitRun(_)
DigitRun(str) ==
    IF Len(str) > 0 /\ IsDigit(str[1]) THEN 1 + DigitRun(Tail(str)) ELSE 0

\* \d+ at the start of str: the length of the match, 0 without one
IntegerAt(str) == DigitRun(str)

\* \d+\.?\d* at the start of str: the length of the match, 0 without one
NumberAt(str) ==
    LET a == DigitRun(str) IN
    IF a = 0 THEN 0
    ELSE IF Len(str) > a /\ str[a + 1] = "."
         THEN a + 1 + DigitRun(SubSeq(str, a + 2, Len(str)))
         ELSE a

RECURSIVE Pow10(_)
Pow10(n) == IF n = 0 THEN 1 ELSE 10 * Pow10(n - 1)

\* float(text) for a text that \d+\.?\d* matched
FloatOf(text) ==
    LET a == DigitRun(text)
        frac == SubSeq(text, a + 2, Len(text))
    IN  Frac(IntOf(SubSeq(text, 1, a) \o frac), Pow10(Len(frac)))

Ratings_ == <<"R", "a", "t", "i", "n", "g">>

\* \((\d+)\s*Ratings?\) at the start of str, with or without re.IGNORECASE:
\* group(1) in <<...>>, <<>> without a match
ReviewsAt(str, ignorecase) ==
    IF Len(str) = 0 \/ str[1] # "(" THEN <<>>
    ELSE LET rest  == Tail(str)
             n     == DigitRun(rest)
             after == LStrip(SubSeq(rest, n + 1, Len(rest)))
             word  == SubSeq(after, 1, Len(Ratings_))
             tail  == SubSeq(after, Len(Ratings_) + 1, Len(after))
             close == IF Len(tail) > 0 /\ Lower(<<tail[1]>>) = <<"s">> /\
                         (ignorecase \/ tail[1] = "s")
                      THEN Tail(tail) ELSE tail
         IN  IF /\ n > 0
                /\ Len(after) >= Len(Ratings_)
                /\ (word = Ratings_ \/ (ignorecase /\ Lower(word) = Lower(Ratings_)))
                /\ Len(close) > 0
                /\ close[1] = ")"
             THEN <<SubSeq(rest, 1, n)>>
             ELSE <<>>

\* re.search(r'(\d+\.?\d*)', str): group(1) in <<...>>, <<>> without a match
RECURSIVE SearchNumber(_)
SearchNumber(str) ==
    IF Len(str) = 0 THEN <<>>
    ELSE IF NumberAt(str) > 0 THEN <<SubSeq(str, 1, NumberAt(str))>>
    ELSE SearchNumber(Tail(str))

\* re.search(r'\((\d+)\s*Ratings?\)', str, re.IGNORECASE)
RECURSIVE SearchReviews(_)
SearchReviews(str) ==
    IF Len(str) = 0 THEN <<>>
    ELSE IF ReviewsAt(str, TRUE) # <<>> THEN ReviewsAt(str, TRUE)
    ELSE SearchReviews(Tail(str))

\* re.search(r'(\d+\.?\d*)\s*\((\d+)\s*Ratings?\)', str): <<group(1),
\* group(2)>>, <<>> without a match
RECURSIVE SearchRating(_)
SearchRating(str) ==
    IF Len(str) = 0 THEN <<>>
    ELSE LET n       == NumberAt(str)
             reviews == ReviewsAt(LStrip(SubSeq(str, n + 1, Len(str))), FALSE)
         IN  IF n > 0 /\ reviews # <<>>
             THEN <<SubSeq(str, 1, n), reviews[1]>>
             ELSE SearchRating(Tail(str))

NoRating == [rating |-> Frac(0, 1), total_reviews |-> 0]

parse_rating(impl, rating_str) ==
    IF rating_str.isna \/ (impl = "analyze" /\ Str(rating_str) = <<"n", "a", "n">>)
    THEN NoRating
    ELSE IF impl = "analyze"
    THEN LET rating_match  == SearchNumber(Str(rating_str))
             reviews_match == SearchReviews(Str(rating_str))
         IN  [rating |-> IF rating_match # <<>> THEN FloatOf(rating_match[1])
                         ELSE Frac(0, 1),
              total_reviews |-> IF reviews_match # <<>> THEN IntOf(reviews_match[1])
                                ELSE 0]
    ELSE LET m == SearchRating(Str(rating_str))
         IN  IF m # <<>>
             THEN [rating |-> FloatOf(m[1]), total_reviews |-> IntOf(m[2])]
             ELSE NoRating

\* Cells of the "Rating" column: "R (N Ratings)" for decimals R and counts N,
\* short free strings, and the missing cell. A cell is kept with the R and N
\* it was written from (<<>> for the other cells).
RatingDigits == {"0", "4"}

DigitStrings == SeqsUpTo(RatingDigits, MaxRatingDigits) \ {<<>>}

Decimals ==
    DigitStrings \cup {a \o <<".">> \o b : a \in DigitStrings,
                                          b \in SeqsUpTo(RatingDigits, MaxRatingDigits)}

RatingString(R, N) == R \o <<" ", "(">> \o N \o <<" ">> \o Ratings_ \o <<"s", ")">>

RatingCells ==
    {[cell |-> NaN, R |-> <<>>, N |-> <<>>]}
    \cup {[cell |-> StrCell(RatingString(R, N)), R |-> R, N |-> N] :
             R \in Decimals, N \in DigitStrings}
    \cup {[cell |-> StrCell(str), R |-> <<>>, N |-> <<>>] :
             str \in SeqsUpTo({"4", ".", "(", "n"}, MaxRatingStr)}

RatingInit ==
    /\ db = EmptyDb
    /\ scraper = "import"
    /\ scraped_data = EmptyStaged
    /\ written = [k \in AllKeys |-> None]
    /\ pool = PoolIdle
    /\ disc = DiscIdle
    /\ fetch = FetchIdle
    /\ \E impl \in RatingParsers, c \in RatingCells :
        match = [pc |-> "cell", impl |-> impl, rating_str |-> c.cell,
                 R |-> c.R, N |-> c.N]

\* transform_* calls parse_rating on the cell.
ParseRating ==
    /\ match.pc = "cell"
    /\ match' = [pc |-> "parsed", impl |-> match.impl,
                 rating_str |-> match.rating_str, R |-> match.R, N |-> match.N,
                 result |-> parse_rating(match.impl, match.rating_str)]
    /\ UNCHANGED <<storeVars, pool, disc, fetch>>

RatingNext == ParseRating

SpecRating == RatingInit /\ [][RatingNext]_vars

\* C23: for a cell "R (N Ratings)" with R a decimal and N an integer, each
\* parse_rating returns rating = R and total_reviews = N.
C23_RatingAndCountParsed ==
    (match.pc = "parsed" /\ match.R # <<>>) =>
        LET R == match.R
            d == CHOOSE i \in 1..(Len(R) + 1) : i = Len(R) + 1 \/ R[i] = "."
            whole == SubSeq(R, 1, d - 1)
            frac  == SubSeq(R, d + 1, Len(R))
        IN  /\ FracEQ(match.result.rating,
                      Frac(IntOf(whole) * Pow10(Len(frac)) + IntOf(frac),
                           Pow10(Len(frac))))
            /\ match.result.total_reviews = IntOf(match.N)

\* "4.04 (40 Ratings)" parsed by the doctors importer to (4.04, 40).
C23_Witness ==
    /\ match.pc = "parsed"
    /\ match.impl = "doctors"
    /\ match.R = <<"4", ".", "0", "4">>
    /\ match.N = <<"4", "0">>
    /\ match.result = [rating |-> Frac(404, 100), total_reviews |-> 40]

(***************************************************************************)
(* Deletion from the store.                                                *)
(***************************************************************************)
\* C24: no step of a scrape or import run deletes from the store: the set of
\* natural keys present in each collection never shrinks.
C24_StoreNeverShrinks ==
    [][LET HospitalKey(doc) == IF "link" \in DOMAIN doc THEN <<"link", doc.link>>
                               ELSE <<"name", doc.name, doc.location_city>>
           DoctorKey(doc) == IF "hospital" \in DOMAIN doc
                             THEN <<doc.name, doc.hospital>>
                             ELSE <<doc.name, doc.hospital_name_nested>>
           HospitalKeys(d) == {HospitalKey(d.hospitals[i]) : i \in 1..Len(d.hospitals)}
           DoctorKeys(d) == {DoctorKey(d.doctors[i]) : i \in 1..Len(d.doctors)}
       IN  /\ HospitalKeys(db) \subseteq HospitalKeys(db')
           /\ DoctorKeys(db) \subseteq DoctorKeys(db')]_vars

(***************************************************************************)
(* The score of one candidate in the loop of find_matching_hospital.       *)
(***************************************************************************)
\* A candidate document without location.city.
NoCityHospital == [id |-> "o7", name |-> ApolloHospitals, city |-> <<>>]

ScoreCandidates == Candidates \cup {NoCityHospital}

\* The loop is entered with a non-empty doctor_hospital only.
ScoreInit ==
    /\ db = EmptyDb
    /\ scraper = "import_doctors"
    /\ scraped_data = EmptyStaged
    /\ written = [k \in AllKeys |-> None]
    /\ pool = PoolIdle
    /\ disc = DiscIdle
    /\ fetch = FetchIdle
    /\ \E dh \in DoctorHospitals \ {<<>>}, dc \in DoctorCities, h \in ScoreCandidates :
        match = [pc |-> "candidate", doctor_hospital |-> dh, doctor_city |-> dc,
                 hospital |-> h]

\* One iteration of the loop: the three terms and their sum.
ScoreCandidate ==
    /\ match.pc = "candidate"
    /\ LET clean_doctor_hospital == Lower(clean_hospital_name(match.doctor_hospital))
           clean_doctor_city == Lower(match.doctor_city)
           hospital_name == Lower(match.hospital.name)
           hospital_city == Lower(match.hospital.city)
       IN  match' = [pc |-> "scored",
                     doctor_hospital |-> match.doctor_hospital,
                     doctor_city |-> match.doctor_city,
                     hospital |-> match.hospital,
                     name_similarity |-> Ratio(clean_doctor_hospital, hospital_name),
                     city_bonus |-> CityBonus(clean_doctor_city, hospital_city),
                     substring_bonus |-> SubstringBonus(clean_doctor_hospital,
                                                        hospital_name),
                     total_score |-> TotalScore(match.doctor_hospital,
                                                match.doctor_city, match.hospital)]
    /\ UNCHANGED <<storeVars, pool, disc, fetch>>

ScoreNext == ScoreCandidate

SpecScore == ScoreInit /\ [][ScoreNext]_vars

\* C25 as stated: the total score is the name similarity, plus 0.2 exactly
\* when the two cities are equal ignoring case, plus 0.3 exactly when either
\* normalized name contains the other.
C25_ScoreIsSimilarityPlusBonuses ==
    match.pc = "scored" =>
        LET a == Lower(clean_hospital_name(match.doctor_hospital))
            b == Lower(match.hospital.name)
            city == IF Lower(match.doctor_city) = Lower(match.hospital.city)
                    THEN Frac(2, 10) ELSE Frac(0, 1)
            sub  == IF IsSubstring(a, b) \/ IsSubstring(b, a)
                    THEN Frac(3, 10) ELSE Frac(0, 1)
        IN  FracEQ(match.total_score, FracAdd(FracAdd(Ratio(a, b), city), sub))

\* C25 amended: the 0.2 is added exactly when the doctor's city is known
\* (non-empty) and equal to the candidate's city ignoring case.
C25_ScoreWithKnownCity ==
    match.pc = "scored" =>
        LET a == Lower(clean_hospital_name(match.doctor_hospital))
            b == Lower(match.hospital.name)
            city == IF /\ match.doctor_city # <<>>
                       /\ Lower(match.doctor_city) = Lower(match.hospital.city)
                    THEN Frac(2, 10) ELSE Frac(0, 1)
            sub  == IF IsSubstring(a, b) \/ IsSubstring(b, a)
                    THEN Frac(3, 10) ELSE Frac(0, 1)
        IN  /\ FracEQ(match.total_score, FracAdd(FracAdd(Ratio(a, b), city), sub))
            /\ FracEQ(match.city_bonus, city)
            /\ FracEQ(match.substring_bonus, sub)

\* "chennai" against "Chennai" earns the city bonus, and the contained name
\* the substring bonus.
C25_Witness ==
    /\ match.pc = "scored"
    /\ match.doctor_hospital = ApolloHospital
    /\ match.doctor_city = Lower(Chennai)
    /\ match.hospital = ApolloChennai
    /\ match.city_bonus = Frac(2, 10)
    /\ match.substring_bonus = Frac(3, 10)

(***************************************************************************)
(* The name cascade extract_hospital_name of the fast and the async        *)
(* scraper.  A text is a sequence of atoms: single characters and the      *)
(* words "Vaidam" and "India" of the clean-up patterns.                    *)
(***************************************************************************)
MaxNameAtoms == 4   \* atoms of one element's text

NameScrapers == {"fast", "async"}

NameAtoms == {"A", " ", "-", "|", "Vaidam", "India"}

\* len() of one atom
AtomLen(atom) == CASE atom = "Vaidam" -> 6 [] atom = "India" -> 5 [] OTHER -> 1

\* len(text)
RECURSIVE CharLen(_)
CharLen(text) == IF text = <<>> THEN 0 ELSE AtomLen(Head(text)) + CharLen(Tail(text))

\* element.get_text(strip=True) of the element a selector finds
ElementNames == {text \in SeqsUpTo(NameAtoms, MaxNameAtoms) : Strip(text) = text}

\* \s*<sep>\s*<word> matches at the start of text
SuffixAt(text, sep, word) ==
    LET a == LStrip(text) IN
    /\ Len(a) > 0
    /\ a[1] = sep
    /\ LET b == LStrip(Tail(a)) IN Len(b) > 0 /\ b[1] = word

\* re.sub(r'\s*<sep>\s*<word>.*', '', text): the text up to the leftmost
\* match
RECURSIVE RemoveSuffix(_, _, _)
RemoveSuffix(text, sep, word) ==
    IF text = <<>> \/ SuffixAt(text, sep, word) THEN <<>>
    ELSE <<Head(text)>> \o RemoveSuffix(Tail(text), sep, word)

\* the clean-up of an accepted text
CleanName(s, text) ==
    LET t1 == RemoveSuffix(text, "-", "Vaidam")
        t2 == RemoveSuffix(t1, "|", "Vaidam")
    IN  IF s = "fast" THEN Strip(RemoveSuffix(t2, "-", "India")) ELSE t2

\* if text and len(text) > 3
Accepts(s, text) == text # <<>> /\ CharLen(text) > 3

\* selectors of extract_hospital_name
SelectorCount(s) == IF s = "fast" THEN 7 ELSE 5

NameInit ==
    /\ db = EmptyDb
    /\ scraped_data = EmptyStaged
    /\ written = [k \in AllKeys |-> None]
    /\ pool = PoolIdle
    /\ disc = DiscIdle
    /\ fetch = FetchIdle
    /\ \E s \in NameScrapers :
        /\ scraper = s
        /\ match = [pc |-> "cascade", selector |-> 1, result |-> <<>>]

\* soup.select_one(selector) finds no element.
SelectorMisses ==
    /\ match.pc = "cascade"
    /\ match.selector <= SelectorCount(scraper)
    /\ match' = [match EXCEPT !.selector = @ + 1]
    /\ UNCHANGED <<storeVars, pool, disc, fetch>>

\* soup.select_one(selector) finds an element with this text.
SelectorFinds(text) ==
    /\ match.pc = "cascade"
    /\ match.selector <= SelectorCount(scraper)
    /\ match' = IF Accepts(scraper, text)
                THEN [match EXCEPT !.pc = "returned",
                                   !.result = CleanName(scraper, text)]
                ELSE [match EXCEPT !.selector = @ + 1]
    /\ UNCHANGED <<storeVars, pool, disc, fetch>>

\* return "" after the last selector
NoName ==
    /\ match.pc = "cascade"
    /\ match.selector > SelectorCount(scraper)
    /\ match' = [match EXCEPT !.pc = "returned", !.result = <<>>]
    /\ UNCHANGED <<storeVars, pool, disc, fetch>>

NameNext ==
    \/ SelectorMisses
    \/ \E text \in ElementNames : SelectorFinds(text)
    \/ NoName

SpecName == NameInit /\ [][NameNext]_vars

\* C26: the cascade cleans a text before it accepts it: a non-empty name it
\* returns has more than 3 characters as returned, and the empty string is
\* returned only after every selector was tried.
C26_ReturnedNameValidated ==
    match.pc = "returned" =>
        IF match.result = <<>>
        THEN match.selector > SelectorCount(scraper)
        ELSE CharLen(match.result) > 3

(***************************************************************************)
(* import_doctors_to_mongodb(df, map_to_hospitals = True), run twice on    *)
(* the same sheet.                                                         *)
(***************************************************************************)
HospitalIds == {"o1", "o2"}

\* hospitals_collection before the import: two hospitals without doctors
MappedHospitals ==
    <<[id |-> "o1", name |-> "h1", doctors |-> <<>>],
      [id |-> "o2", name |-> "h3", doctors |-> <<>>]>>

\* What find_matching_hospital returns for the row's hospital: the sheet's
\* "h1" is matched to document o1, "h2" to none.
MatchOf(doctor_hospital) == IF doctor_hospital = "h1" THEN "o1" ELSE None

MapRows ==
    {[ok |-> TRUE, name |-> n, hospital |-> h] : n \in DoctorNames, h \in HospitalNames}
    \cup {RowError}

MapSheets == SeqsUpTo(MapRows, MaxRows)

\* The for-loop over the rows 1..n of df: the doctors collection and the
\* dict hospital_updates (its keys and the list of each key) after row n.
RECURSIVE ImportMappedRows(_, _, _)
ImportMappedRows(coll, df, n) ==
    IF n = 0
    THEN [doctors |-> coll, keys |-> {}, lists |-> [h \in HospitalIds |-> <<>>]]
    ELSE LET before == ImportMappedRows(coll, df, n - 1)
             row == df[n]
         IN  IF ~row.ok THEN before
             ELSE LET hospital_id == MatchOf(row.hospital)
                      \* if hospital_id not in hospital_updates: ... = []
                      keys == IF hospital_id # None
                              THEN before.keys \cup {hospital_id} ELSE before.keys
                      doctor_doc == [name |-> row.name,
                                     hospital_name_nested |-> row.hospital,
                                     hospital_id |-> hospital_id]
                      existing == FirstMatch(before.doctors,
                                      [name |-> row.name,
                                       hospital_name_nested |-> row.hospital])
                  IN  IF existing # 0
                      THEN [before EXCEPT !.keys = keys]
                      ELSE [doctors |-> Append(before.doctors, doctor_doc),
                            keys |-> keys,
                            lists |-> IF hospital_id # None
                                      THEN [before.lists EXCEPT ![hospital_id] =
                                              Append(@, [doctor_id |-> Len(before.doctors) + 1,
                                                         name |-> row.name])]
                                      ELSE before.lists]

\* hospitals_collection.update_one({'_id': ...}, {'$set': {'doctors': ...}})
\* for every key of hospital_updates
UpdateHospitals(hospitals, keys, lists) ==
    [i \in 1..Len(hospitals) |->
        IF hospitals[i].id \in keys
        THEN [hospitals[i] EXCEPT !.doctors = lists[hospitals[i].id]]
        ELSE hospitals[i]]

\* the store after import_doctors_to_mongodb(df, True)
ImportMapped(store, df) ==
    LET r == ImportMappedRows(store.doctors, df, Len(df))
    IN  [hospitals |-> UpdateHospitals(store.hospitals, r.keys, r.lists),
         doctors |-> r.doctors]

MapInit ==
    /\ scraper = "import_doctors"
    /\ scraped_data = EmptyStaged
    /\ written = [k \in AllKeys |-> None]
    /\ pool = PoolIdle
    /\ disc = DiscIdle
    /\ fetch = FetchIdle
    /\ \E stored \in SeqsUpTo({[name |-> "d1", hospital_name_nested |-> "h1",
                                hospital_id |-> None]}, 1) :
        db = [hospitals |-> MappedHospitals, doctors |-> stored]
    /\ \E df \in MapSheets : match = [pc |-> "first", df |-> df, after_first |-> db]

\* One run of the script with option 2 on the sheet.
RunImportMapped ==
    /\ match.pc \in {"first", "second"}
    /\ db' = ImportMapped(db, match.df)
    /\ match' = IF match.pc = "first"
                THEN [match EXCEPT !.pc = "second", !.after_first = db']
                ELSE [match EXCEPT !.pc = "done"]
    /\ UNCHANGED <<scraper, scraped_data, written, pool, disc, fetch>>

MapNext == RunImportMapped

SpecMap == MapInit /\ [][MapNext]_vars

\* C29: a second run of the mapped import on the same sheet leaves the store
\* as the first run left it: no doctor is inserted, and every hospital's
\* doctors list is what it was after the first run.
C29_MappedImportIdempotent ==
    match.pc = "done" => db = match.after_first

\* The doctors' half of C29, which the code keeps: the second run inserts
\* no doctor.
SecondRunInsertsNoDoctor ==
    match.pc = "done" => db.doctors = match.after_first.doctors

(***************************************************************************)
(* The page limit of the listing walks: scrape_hospitals_pagination,       *)
(* the pagination loop of discover_hospital_urls,                          *)
(* scrape_hospital_listing_comprehensive and                               *)
(* scrape_hospital_listing_lightning, with the limits the code runs them   *)
(* with.                                                                   *)
(***************************************************************************)
ListingScrapers == {"simple", "async", "india", "lightning"}

\* max_pages of a walk: the local constant of the simple and the async
\* walk, and the arguments the India and the lightning discovery pass
PageLimits(s) ==
    CASE s = "simple"    -> {500}
      [] s = "async"     -> {100}
      [] s = "india"     -> {50, 100, 200}
      [] s = "lightning" -> {5, 10, 20}

\* a loop test one page too generous
WithinLimitPlusOne(page, limit) == page <= limit + 1

\* while page <= max_pages / for page in range(2, max_pages + 1)
WithinLimit(page, limit) == page <= limit

\* whether the walk goes on after this page: the simple and the async walk
\* need links and a next-page marker, the India and the lightning walk need
\* links on every page after the first
ListingContinues(s, page, p) ==
    IF s \in {"simple", "async"}
    THEN p.ok /\ p.urls # {} /\ p.has_next
    ELSE page = 1 \/ (p.ok /\ p.urls # {})

LimitInit ==
    /\ db = EmptyDb
    /\ scraper = "fast"
    /\ scraped_data = EmptyStaged
    /\ written = [k \in AllKeys |-> None]
    /\ pool = PoolIdle
    /\ match = MatchIdle
    /\ fetch = FetchIdle
    /\ \E s \in ListingScrapers : \E limit \in PageLimits(s) :
          disc = [pc |-> "listing", scraper |-> s, max_pages |-> limit,
                  page |-> 1, requested |-> 0, hospital_urls |-> {}]

\* one page of the walk: request it, extract its links, decide
RequestListing(p) ==
    /\ disc.pc = "listing"
    /\ \/ WithinLimit(disc.page, disc.max_pages)
       \/ disc.page = 1 /\ disc.scraper \in {"india", "lightning"}
    /\ disc' = [disc EXCEPT
                  !.requested = @ + 1,
                  !.hospital_urls = @ \cup p.urls,
                  !.page = @ + 1,
                  !.pc = IF ListingContinues(disc.scraper, disc.page, p)
                         THEN "listing" ELSE "returned"]
    /\ UNCHANGED <<storeVars, pool, match, fetch>>

\* the loop test fails: the walk returns its URLs
ListingEnds ==
    /\ disc.pc = "listing"
    /\ ~WithinLimit(disc.page, disc.max_pages)
    /\ ~(disc.page = 1 /\ disc.scraper \in {"india", "lightning"})
    /\ disc' = [disc EXCEPT !.pc = "returned"]
    /\ UNCHANGED <<storeVars, pool, match, fetch>>

LimitNext ==
    \/ \E p \in ListingPages : RequestListing(p)
    \/ ListingEnds

SpecLimit == LimitInit /\ [][LimitNext]_vars

\* the request is the only step of a running walk below its limit, so a
\* walk whose steps are taken comes to its return
SpecLimitFair == SpecLimit /\ WF_vars(LimitNext)

\* C30: a listing walk requests at most max_pages pages, whatever the pages
\* hold, and once max_pages pages are requested its only step is to return.
C30_WalkRequestsAtMostMaxPages ==
    /\ disc.requested <= disc.max_pages
    /\ (disc.pc = "listing" /\ disc.requested = disc.max_pages) =>
          /\ ENABLED ListingEnds
          /\ \A p \in ListingPages : ~ENABLED RequestListing(p)

\* every walk returns
WalkReturns == <>(disc.pc = "returned")

\* a walk fed links and a next-page marker on every page has returned after
\* exactly max_pages requests
C30_Witness ==
    /\ disc.pc = "returned"
    /\ disc.requested = disc.max_pages
    /\ disc.hospital_urls = WalkUrls

====
